---- MODULE Spec2Model ----
(***************************************************************************)
(* Locale-aware alphabetic indexing of the narrative web report            *)
(* (gramps/plugins/webreport/common.py): contraction table, first-letter   *)
(* extraction, primary-difference predicate (PyICU and fallback variants), *)
(* index builder and index lookup.                                         *)
(*                                                                         *)
(* Representation.  A text is a sequence of characters; a character is a   *)
(* one-element token: ASCII characters stand for themselves, the others    *)
(* are named: a precomposed letter by its letter and its marks ("Aring" =  *)
(* U+00C5, "zcaron" = U+017E, "Oacute" = U+00D3), the combining marks as   *)
(* "acute" = U+0301, "caron" = U+030C and "ring" = U+030A, the digraph     *)
(* characters as "LJlig" = U+01C7 .. "njlig" = U+01CC, and "middot" =      *)
(* U+00B7.  A locale tag is the sequence of its "_"-separated parts:       *)
(* hu_HU is <<"hu", "HU">>.  A sort key is a sequence of naturals          *)
(* compared as Python compares bytes.  An exception a call raises is the   *)
(* value the call ends with (ValueError, AttributeError).                  *)
(***************************************************************************)
EXTENDS Integers, Sequences, FiniteSets, TLC

VARIABLES
    icu,                \* TRUE iff "import PyICU" succeeded at module load
    COLLATE_LANG,       \* glocale.collation, the process-wide locale tag
    contractions_dict,  \* the module global CONTRACTIONS_DICT
    call,               \* the last call: its arguments and its result
    rule                \* the attributes of a HasGalleryBase rule object

vars == <<icu, COLLATE_LANG, contractions_dict, call, rule>>

----------------------------------------------------------------------------
(* Bounds *)

\* longest handle list passed to get_first_letters
MaxHandles == 3
\* longest free text passed to first_letter
MaxLen == 3
\* longest index list passed directly to get_index_letter
MaxIndex == 2
\* most distinct letters of an index passed to alphabet_navigation
MaxNav == 28
\* most letters of such an index that occur twice
MaxDup == 2
\* longest text of the count a filter rule is created with
MaxDigits == 3
\* most media references of an object a filter rule is applied to
MaxMedia == 3
\* longest event handle list passed to sort_event_types
MaxEvents == 3
\* longest list of event type labels passed to sort_event_types
MaxTypes == 2
\* most media objects of the database of a report
MaxDbMedia == 4
\* most media objects referenced by the report
MaxReferenced == 3
\* most media objects of the database of the thumbnail preview page
MaxThumbs == 15

----------------------------------------------------------------------------
(* Generic sequence helpers *)

Range(s) == {s[i] : i \in 1..Len(s)}

\* s[:n] of Python
Take(s, n) == SubSeq(s, 1, IF n < Len(s) THEN n ELSE Len(s))

IsPrefix(p, s) == Len(p) <= Len(s) /\ SubSeq(s, 1, Len(p)) = p

IsProperPrefix(p, s) == Len(p) < Len(s) /\ SubSeq(s, 1, Len(p)) = p

RECURSIVE IsSubsequence(_, _)
IsSubsequence(a, b) ==
    IF a = <<>> THEN TRUE
    ELSE IF b = <<>> THEN FALSE
    ELSE IF Head(a) = Head(b) THEN IsSubsequence(Tail(a), Tail(b))
    ELSE IsSubsequence(a, Tail(b))

\* all sequences over S of length 0..n
SeqsUpTo(S, n) == UNION {[1..k -> S] : k \in 0..n}

\* comparison of two sort keys (Python bytes): lexicographic, a proper
\* prefix is smaller
RECURSIVE KeyLess(_, _)
KeyLess(a, b) ==
    IF b = <<>> THEN FALSE
    ELSE IF a = <<>> THEN TRUE
    ELSE IF Head(a) < Head(b) THEN TRUE
    ELSE IF Head(a) > Head(b) THEN FALSE
    ELSE KeyLess(Tail(a), Tail(b))

RECURSIVE KeyGeq(_, _)
KeyGeq(a, b) ==
    IF b = <<>> THEN TRUE
    ELSE IF a = <<>> THEN FALSE
    ELSE IF Head(a) > Head(b) THEN TRUE
    ELSE IF Head(a) < Head(b) THEN FALSE
    ELSE KeyGeq(Tail(a), Tail(b))

----------------------------------------------------------------------------
(* Characters: unicodedata.normalize, str.upper, str.lower, str.capitalize *)
(* and ord on the modelled alphabet.  A text is a sequence of characters;  *)
(* a character outside ASCII is written by its name: a precomposed letter  *)
(* by its letter and marks ("Aring" is U+00C5), the combining marks        *)
(* U+0301, U+030C, U+030A as "acute", "caron", "ring", the digraph         *)
(* characters U+01C7..U+01CC as "LJlig", "Ljlig", "ljlig", "NJlig",        *)
(* "Njlig", "njlig", and U+00B7 as "middot".                               *)

LowerSeq == <<"a", "b", "c", "d", "e", "f", "g", "h", "i", "j", "k", "l", "m",
              "n", "o", "p", "q", "r", "s", "t", "u", "v", "w", "x", "y", "z">>

UpperSeq == <<"A", "B", "C", "D", "E", "F", "G", "H", "I", "J", "K", "L", "M",
              "N", "O", "P", "Q", "R", "S", "T", "U", "V", "W", "X", "Y", "Z">>

IndexOf(seq, x) == CHOOSE i \in 1..Len(seq) : seq[i] = x

\* the letters of the modelled alphabet, and the place of each in it
LowerLetters == Range(LowerSeq)

UpperLetters == Range(UpperSeq)

LetterIndex ==
    [c \in LowerLetters \cup UpperLetters |->
        IF c \in LowerLetters THEN IndexOf(LowerSeq, c) ELSE IndexOf(UpperSeq, c)]

\* Python's None
None == <<"None">>

\* the precomposed characters of the alphabet, each with the character and
\* the combining mark it is canonically equivalent to, and its code point
Precomposed ==
    { <<"A", "acute", "Aacute", 193>>, <<"a", "acute", "aacute", 225>>,
      <<"Aring", "acute", "Aringacute", 506>>,
      <<"aring", "acute", "aringacute", 507>>,
      <<"C", "acute", "Cacute", 262>>, <<"c", "acute", "cacute", 263>>,
      <<"E", "acute", "Eacute", 201>>, <<"e", "acute", "eacute", 233>>,
      <<"G", "acute", "Gacute", 500>>, <<"g", "acute", "gacute", 501>>,
      <<"I", "acute", "Iacute", 205>>, <<"i", "acute", "iacute", 237>>,
      <<"K", "acute", "Kacute", 7728>>, <<"k", "acute", "kacute", 7729>>,
      <<"L", "acute", "Lacute", 313>>, <<"l", "acute", "lacute", 314>>,
      <<"M", "acute", "Macute", 7742>>, <<"m", "acute", "macute", 7743>>,
      <<"N", "acute", "Nacute", 323>>, <<"n", "acute", "nacute", 324>>,
      <<"O", "acute", "Oacute", 211>>, <<"o", "acute", "oacute", 243>>,
      <<"P", "acute", "Pacute", 7764>>, <<"p", "acute", "pacute", 7765>>,
      <<"R", "acute", "Racute", 340>>, <<"r", "acute", "racute", 341>>,
      <<"S", "acute", "Sacute", 346>>, <<"s", "acute", "sacute", 347>>,
      <<"U", "acute", "Uacute", 218>>, <<"u", "acute", "uacute", 250>>,
      <<"W", "acute", "Wacute", 7810>>, <<"w", "acute", "wacute", 7811>>,
      <<"Y", "acute", "Yacute", 221>>, <<"y", "acute", "yacute", 253>>,
      <<"Z", "acute", "Zacute", 377>>, <<"z", "acute", "zacute", 378>>,
      <<"A", "caron", "Acaron", 461>>, <<"a", "caron", "acaron", 462>>,
      <<"C", "caron", "Ccaron", 268>>, <<"c", "caron", "ccaron", 269>>,
      <<"D", "caron", "Dcaron", 270>>, <<"d", "caron", "dcaron", 271>>,
      <<"E", "caron", "Ecaron", 282>>, <<"e", "caron", "ecaron", 283>>,
      <<"G", "caron", "Gcaron", 486>>, <<"g", "caron", "gcaron", 487>>,
      <<"H", "caron", "Hcaron", 542>>, <<"h", "caron", "hcaron", 543>>,
      <<"I", "caron", "Icaron", 463>>, <<"i", "caron", "icaron", 464>>,
      <<"j", "caron", "jcaron", 496>>, <<"K", "caron", "Kcaron", 488>>,
      <<"k", "caron", "kcaron", 489>>, <<"L", "caron", "Lcaron", 317>>,
      <<"l", "caron", "lcaron", 318>>, <<"N", "caron", "Ncaron", 327>>,
      <<"n", "caron", "ncaron", 328>>, <<"O", "caron", "Ocaron", 465>>,
      <<"o", "caron", "ocaron", 466>>, <<"R", "caron", "Rcaron", 344>>,
      <<"r", "caron", "rcaron", 345>>, <<"S", "caron", "Scaron", 352>>,
      <<"s", "caron", "scaron", 353>>, <<"T", "caron", "Tcaron", 356>>,
      <<"t", "caron", "tcaron", 357>>, <<"U", "caron", "Ucaron", 467>>,
      <<"u", "caron", "ucaron", 468>>, <<"Z", "caron", "Zcaron", 381>>,
      <<"z", "caron", "zcaron", 382>>, <<"A", "ring", "Aring", 197>>,
      <<"a", "ring", "aring", 229>>, <<"U", "ring", "Uring", 366>>,
      <<"u", "ring", "uring", 367>>, <<"w", "ring", "wring", 7832>>,
      <<"y", "ring", "yring", 7833>> }

\* the character a starter and a following mark compose to
Composition ==
    [p \in {<<q[1], q[2]>> : q \in Precomposed} |->
        (CHOOSE q \in Precomposed : q[1] = p[1] /\ q[2] = p[2])[3]]

\* the canonical decomposition of a precomposed character, one step
Decomposition ==
    [c \in {q[3] : q \in Precomposed} |->
        SubSeq(CHOOSE q \in Precomposed : q[3] = c, 1, 2)]

\* the digraph characters, each with its compatibility decomposition and
\* its code point
Digraphs ==
    { <<"LJlig", <<"L", "J">>, 455>>, <<"Ljlig", <<"L", "j">>, 456>>,
      <<"ljlig", <<"l", "j">>, 457>>, <<"NJlig", <<"N", "J">>, 458>>,
      <<"Njlig", <<"N", "j">>, 459>>, <<"njlig", <<"n", "j">>, 460>> }

DigraphLetters == [c \in {q[1] : q \in Digraphs} |-> (CHOOSE q \in Digraphs : q[1] = c)[2]]

\* the precomposed character of starter s and mark m, or c when there is none
ComposedOr(s, m, c) ==
    IF <<s, m>> \in DOMAIN Composition THEN Composition[<<s, m>>] ELSE c

\* the simple upper-case mapping of one character
RECURSIVE UpperChar(_)
UpperChar(c) ==
    IF c \in LowerLetters THEN UpperSeq[LetterIndex[c]]
    ELSE IF c \in {"ljlig", "Ljlig"} THEN "LJlig"
    ELSE IF c \in {"njlig", "Njlig"} THEN "NJlig"
    ELSE IF c \in DOMAIN Decomposition
         THEN ComposedOr(UpperChar(Decomposition[c][1]), Decomposition[c][2], c)
    ELSE c

\* str.upper of one character: a text, of two characters where the upper
\* case has no precomposed character (j with caron, w and y with ring)
Upper(c) ==
    IF c \in DOMAIN Decomposition
       /\ <<UpperChar(Decomposition[c][1]), Decomposition[c][2]>> \notin DOMAIN Composition
    THEN <<UpperChar(Decomposition[c][1]), Decomposition[c][2]>>
    ELSE <<UpperChar(c)>>

\* str.capitalize of one character: the title case, which differs from the
\* upper case for the digraph characters
capitalize(c) ==
    IF c \in {"ljlig", "Ljlig", "LJlig"} THEN <<"Ljlig">>
    ELSE IF c \in {"njlig", "Njlig", "NJlig"} THEN <<"Njlig">>
    ELSE Upper(c)

\* str.lower of one character
RECURSIVE Lower(_)
Lower(c) ==
    IF c \in UpperLetters THEN LowerSeq[LetterIndex[c]]
    ELSE IF c \in {"LJlig", "Ljlig"} THEN "ljlig"
    ELSE IF c \in {"NJlig", "Njlig"} THEN "njlig"
    ELSE IF c \in DOMAIN Decomposition
         THEN Composition[<<Lower(Decomposition[c][1]), Decomposition[c][2]>>]
    ELSE c

Digits == <<"0", "1", "2", "3", "4", "5", "6", "7", "8", "9">>

\* the code points of the other characters
SymbolCodePoint ==
    (" " :> 32) @@ ("&" :> 38) @@ (";" :> 59) @@ ("middot" :> 183)
 @@ ("acute" :> 769) @@ ("ring" :> 778) @@ ("caron" :> 780)
 @@ [c \in {q[1] : q \in Digraphs} |-> (CHOOSE q \in Digraphs : q[1] = c)[3]]
 @@ [c \in {q[3] : q \in Precomposed} |-> (CHOOSE q \in Precomposed : q[3] = c)[4]]

\* ord(c)
CodePoint(c) ==
    IF c \in UpperLetters THEN 64 + LetterIndex[c]
    ELSE IF c \in LowerLetters THEN 96 + LetterIndex[c]
    ELSE IF c \in Range(Digits) THEN 47 + IndexOf(Digits, c)
    ELSE SymbolCodePoint[c]

\* canonical decomposition of one character
RECURSIVE CanonicalDecomposeChar(_)
CanonicalDecomposeChar(c) ==
    IF c \in DOMAIN Decomposition
    THEN CanonicalDecomposeChar(Decomposition[c][1]) \o <<Decomposition[c][2]>>
    ELSE <<c>>

\* canonical decomposition (NFD) of a text
RECURSIVE CanonicalDecompose(_)
CanonicalDecompose(s) ==
    IF s = <<>> THEN <<>>
    ELSE CanonicalDecomposeChar(Head(s)) \o CanonicalDecompose(Tail(s))

\* compatibility decomposition (NFKD): the canonical decomposition, and
\* the digraph characters decompose to their two letters
RECURSIVE Decompose(_)
Decompose(s) ==
    IF s = <<>> THEN <<>>
    ELSE (IF Head(s) \in DOMAIN DigraphLetters THEN DigraphLetters[Head(s)]
          ELSE CanonicalDecomposeChar(Head(s))) \o Decompose(Tail(s))

\* canonical composition of the decomposed text s onto the composed text
\* out: a mark composes with the character before it when the two have a
\* precomposed character; a mark behind a mark that did not compose is
\* blocked (the three marks have the same combining class)
RECURSIVE ComposeOnto(_, _)
ComposeOnto(out, s) ==
    IF s = <<>> THEN out
    ELSE IF out # <<>> /\ <<out[Len(out)], Head(s)>> \in DOMAIN Composition
         THEN ComposeOnto(SubSeq(out, 1, Len(out) - 1)
                              \o <<Composition[<<out[Len(out)], Head(s)>>]>>,
                          Tail(s))
    ELSE ComposeOnto(Append(out, Head(s)), Tail(s))

\* canonical composition (the C of NFKC)
Compose(s) == ComposeOnto(<<>>, s)

\* normalize('NFKC', s)
normalize(s) == Compose(Decompose(s))

----------------------------------------------------------------------------
(* The locale object: rlocale.sort_key and the PyICU primary collator,     *)
(* computed as the ICU collator does with the CLDR rules of the locale.    *)
(* The text is canonically decomposed and cut into collation tokens, the   *)
(* longest contraction of the locale first; every token gives one or more  *)
(* collation elements <<primary, secondary, tertiary>>; the sort key is    *)
(* the non-zero primary weights, a separator, the non-zero secondary       *)
(* weights, a separator, the non-zero tertiary weights.  The weights keep  *)
(* the order of the root collation and of the tailorings of the locales:   *)
(* en has none; hu has the letters cs, dz, dzs, gy, ly, ny, sz, ty, zs     *)
(* after c, d, dz, g, l, n, s, t, z, each in its lower-case, title-case    *)
(* and upper-case form only, and the long consonants (ccs = cs + cs) with  *)
(* a tertiary difference; da sorts a-ring and aa, Aa, AA as one letter     *)
(* after z and upper case before lower case.  Blank and middle dot are     *)
(* not ignored (alternate = non-ignorable, the default of the collator).   *)

\* tag.split("_")[0], as a tag of its own
Split0(tag) == <<tag[1]>>

en_GB == <<"en", "GB">>
hu_HU == <<"hu", "HU">>
da_DK == <<"da", "DK">>
\* a tag without a country
da_tag == <<"da">>

\* the locales of a report
Locales == {en_GB, hu_HU, da_DK}

\* the tags glocale.collation holds: language_COUNTRY, or the language
\* alone
CollationTags == {en_GB, hu_HU, da_tag}

\* the language of a locale tag
Lang(tag) == tag[1]

IsLetter(c) == c \in LowerLetters \/ c \in UpperLetters

IsUpper(c) == c \in UpperLetters

ToLower(c) == IF IsUpper(c) THEN LowerSeq[LetterIndex[c]] ELSE c

LowerText(w) == [i \in 1..Len(w) |-> ToLower(w[i])]

\* the case form of a word: 0 all letters lower case, 1 title case (the
\* first letter upper case, the others lower case), 2 all letters upper
\* case, 3 any other word
CaseForm(w) ==
    IF \A i \in 1..Len(w) : w[i] \in LowerLetters THEN 0
    ELSE IF \A i \in 1..Len(w) : w[i] \in UpperLetters THEN 2
    ELSE IF w[1] \in UpperLetters /\ \A i \in 2..Len(w) : w[i] \in LowerLetters THEN 1
    ELSE 3

\* the letters of the Hungarian alphabet written with two or three
\* characters
HungarianLetters ==
    { <<"c", "s">>, <<"d", "z">>, <<"d", "z", "s">>, <<"g", "y">>, <<"l", "y">>,
      <<"n", "y">>, <<"s", "z">>, <<"t", "y">>, <<"z", "s">> }

\* the contractions of the tailoring of a locale, in lower case
TailoredContractions(tag) ==
    IF Lang(tag) = "hu" THEN HungarianLetters
    ELSE IF Lang(tag) = "da" THEN { <<"a", "a">> }
    ELSE {}

\* the primary weight of the Danish letter a-ring: behind every other
\* letter
AringPrimary == 4 * (Len(LowerSeq) + 1)

\* the primary weight of a letter or contraction w, given in lower case:
\* a Hungarian letter of several characters directly follows its first
\* character (dz) or the shorter letter it extends (dzs)
PrimaryWeight(tag, w) ==
    IF Len(w) = 1 THEN 4 * LetterIndex[w[1]]
    ELSE IF Lang(tag) = "da" THEN AringPrimary
    ELSE 4 * LetterIndex[w[1]] + Len(w) - 1

\* the secondary weight of a combining mark (1 is the weight of a
\* character without mark)
SecondaryWeight(mark) ==
    IF mark = "acute" THEN 2
    ELSE IF mark = "caron" THEN 3
    ELSE IF mark = "ring" THEN 4
    ELSE 5

\* a tertiary weight of a collation element: the case (0 lower, 1 mixed,
\* 2 upper) and the rank among the elements of the same primary weight
Tertiary(case, rank) == 16 * case + rank

\* the tertiary weight of a letter by its case
CaseWeight(c) == IF IsUpper(c) THEN Tertiary(2, 8) ELSE Tertiary(0, 2)

\* the tertiary weight of a contraction in case form 0, 1 or 2.  hu: cs,
\* ccs, Cs, Ccs, CS, CCS in this order (long: the long consonant).  da:
\* a-ring, A-ring, aa, Aa, AA in this order.
ContractionTertiary(tag, form, long) ==
    IF Lang(tag) = "da" THEN Tertiary(form, 4 + form)
    ELSE Tertiary(form, 2 + 3 * form + (IF long THEN 1 ELSE 0))

\* the tertiary weight t as the collator of the locale uses it: the rank
\* alone, and with upper case first (da) the case before the rank, upper
\* case lowest
TertiaryWeight(tag, t) ==
    IF Lang(tag) = "da" THEN 16 * (2 - (t \div 16)) + (t % 16)
    ELSE t % 16

\* w, in lower case, is a contraction of the locale: a contraction of the
\* tailoring, or a Hungarian long consonant (ccs, ddzs)
IsContraction(tag, w) ==
    \/ w \in TailoredContractions(tag)
    \/ (Lang(tag) = "hu" /\ Len(w) >= 3 /\ w[1] = w[2] /\ Tail(w) \in HungarianLetters)

\* s starts with a contraction of n letters, in lower case, title case or
\* upper case (cs, Cs, CS; cS is the two letters c and S)
IsContractionAt(tag, s, n) ==
    /\ Len(s) >= n
    /\ TailoredContractions(tag) # {}
    /\ CaseForm(SubSeq(s, 1, n)) # 3
    /\ IsContraction(tag, LowerText(SubSeq(s, 1, n)))

\* the length of the collation token s starts with: l and middle dot
\* (root collation), a and combining ring (da), the longest contraction,
\* or one character
MatchLen(tag, s) ==
    IF Len(s) >= 2 /\ s[1] \in {"l", "L"} /\ s[2] = "middot" THEN 2
    ELSE IF Lang(tag) = "da" /\ Len(s) >= 2 /\ s[1] \in {"a", "A"} /\ s[2] = "ring"
         THEN 2
    ELSE IF IsContractionAt(tag, s, 4) THEN 4
    ELSE IF IsContractionAt(tag, s, 3) THEN 3
    ELSE IF IsContractionAt(tag, s, 2) THEN 2
    ELSE 1

\* the collation elements of a digraph character: those of its two
\* letters with the tertiary weights of a compatibility character
DigraphElements(tag, w) ==
    << <<PrimaryWeight(tag, <<ToLower(w[1])>>), 1,
         IF IsUpper(w[1]) THEN Tertiary(2, 10) ELSE Tertiary(0, 4)>>,
       <<PrimaryWeight(tag, <<ToLower(w[2])>>), 1,
         IF IsUpper(w[2]) THEN Tertiary(2, 10) ELSE Tertiary(0, 4)>> >>

\* the collation elements of one token
TokenElements(tag, w) ==
    IF Len(w) = 1
    THEN (IF w[1] = " " THEN << <<1, 1, Tertiary(0, 2)>> >>
          ELSE IF w[1] = "middot" THEN << <<2, 1, Tertiary(0, 2)>> >>
          ELSE IF w[1] \in DOMAIN DigraphLetters
               THEN DigraphElements(tag, DigraphLetters[w[1]])
          ELSE IF w[1] \in {"acute", "caron", "ring"}
               THEN << <<0, SecondaryWeight(w[1]), Tertiary(0, 2)>> >>
          ELSE << <<PrimaryWeight(tag, <<ToLower(w[1])>>), 1, CaseWeight(w[1])>> >>)
    ELSE IF w[2] = "middot"
         THEN << <<PrimaryWeight(tag, <<"l">>), 1, CaseWeight(w[1])>>,
                 <<0, SecondaryWeight("middot"), Tertiary(0, 2)>> >>
    ELSE IF w[2] = "ring"
         THEN << <<AringPrimary, 1,
                   IF IsUpper(w[1]) THEN Tertiary(2, 3) ELSE Tertiary(0, 2)>> >>
    ELSE IF LowerText(w) \in TailoredContractions(tag)
         THEN << <<PrimaryWeight(tag, LowerText(w)), 1,
                   ContractionTertiary(tag, CaseForm(w), FALSE)>> >>
    ELSE << <<PrimaryWeight(tag, Tail(LowerText(w))), 1,
              ContractionTertiary(tag, CaseForm(w), TRUE)>>,
            <<PrimaryWeight(tag, Tail(LowerText(w))), 1,
              ContractionTertiary(tag, CaseForm(Tail(w)), FALSE)>> >>

\* the collation elements of a decomposed text: those of its first token,
\* of n characters, followed by those of the rest
RECURSIVE Elements(_, _)
TokenAndRest(tag, s, n) ==
    TokenElements(tag, SubSeq(s, 1, n)) \o Elements(tag, SubSeq(s, n + 1, Len(s)))

Elements(tag, s) ==
    IF s = <<>> THEN <<>> ELSE TokenAndRest(tag, s, MatchLen(tag, s))

\* the collation elements e with the tertiary weights of the locale
Tailored(tag, e) ==
    [i \in 1..Len(e) |-> <<e[i][1], e[i][2], TertiaryWeight(tag, e[i][3])>>]

\* the collation elements of a text under the collator of the locale
CollationElements(tag, s) == Tailored(tag, Elements(tag, CanonicalDecompose(s)))

\* the non-zero weights of one level
Level(e, k) == SelectSeq([i \in 1..Len(e) |-> e[i][k]], LAMBDA x : x # 0)

PrimaryKey(tag, s) == Level(CollationElements(tag, s), 1)

\* the sort key of the collation elements e: the levels in turn, with a
\* separator between them
KeyOf(e) == Level(e, 1) \o <<0>> \o Level(e, 2) \o <<0>> \o Level(e, 3)

\* rlocale.sort_key(s)
sort_key(rlocale, s) == KeyOf(CollationElements(rlocale, s))

\* PRIM_COLL.compare(a, b) of the collator created for lang with strength
\* PRIMARY: -1, 0 or 1
PRIM_COLL_compare(lang, a, b) ==
    IF PrimaryKey(lang, a) = PrimaryKey(lang, b) THEN 0
    ELSE IF KeyLess(PrimaryKey(lang, a), PrimaryKey(lang, b)) THEN -1
    ELSE 1

----------------------------------------------------------------------------
(* Contraction table *)

Entry(variants, letter) == [variants |-> variants, letter |-> letter]

\* mutant: the two-letter "dz" entry placed before the three-letter "dzs"
HungarianContractions_dz_first ==
    << Entry(<< <<"c", "s">>, <<"C", "s">>, <<"C", "S">> >>, <<"C", "S">>),
       Entry(<< <<"d", "z">>, <<"D", "z">>, <<"D", "Z">> >>, <<"D", "Z">>),
       Entry(<< <<"d", "z", "s">>, <<"D", "z", "s">>, <<"D", "Z", "S">> >>,
             <<"D", "Z", "S">>),
       Entry(<< <<"g", "y">>, <<"G", "y">>, <<"G", "Y">> >>, <<"G", "Y">>),
       Entry(<< <<"l", "y">>, <<"L", "y">>, <<"L", "Y">> >>, <<"L", "Y">>),
       Entry(<< <<"n", "y">>, <<"N", "y">>, <<"N", "Y">> >>, <<"N", "Y">>),
       Entry(<< <<"s", "z">>, <<"S", "z">>, <<"S", "Z">> >>, <<"S", "Z">>),
       Entry(<< <<"t", "y">>, <<"T", "y">>, <<"T", "Y">> >>, <<"T", "Y">>),
       Entry(<< <<"z", "s">>, <<"Z", "s">>, <<"Z", "S">> >>, <<"Z", "S">>) >>

\* the list of CONTRACTIONS_DICT["hu"]: "dzs" stands before "dz" ("order is
\* important")
HungarianContractions ==
    << Entry(<< <<"c", "s">>, <<"C", "s">>, <<"C", "S">> >>, <<"C", "S">>),
       Entry(<< <<"d", "z", "s">>, <<"D", "z", "s">>, <<"D", "Z", "S">> >>,
             <<"D", "Z", "S">>),
       Entry(<< <<"d", "z">>, <<"D", "z">>, <<"D", "Z">> >>, <<"D", "Z">>),
       Entry(<< <<"g", "y">>, <<"G", "y">>, <<"G", "Y">> >>, <<"G", "Y">>),
       Entry(<< <<"l", "y">>, <<"L", "y">>, <<"L", "Y">> >>, <<"L", "Y">>),
       Entry(<< <<"n", "y">>, <<"N", "y">>, <<"N", "Y">> >>, <<"N", "Y">>),
       Entry(<< <<"s", "z">>, <<"S", "z">>, <<"S", "Z">> >>, <<"S", "Z">>),
       Entry(<< <<"t", "y">>, <<"T", "y">>, <<"T", "Y">> >>, <<"T", "Y">>),
       Entry(<< <<"z", "s">>, <<"Z", "s">>, <<"Z", "S">> >>, <<"Z", "S">>) >>

\* mutant: the table with an entry for the Welsh contraction "ff"
CONTRACTIONS_DICT_with_ff ==
    (<<"ca">> :> << Entry(<< <<"l", "middot">>, <<"L", "middot">> >>, <<"L">>) >>)
 @@ (<<"cs">> :> << Entry(<< <<"c", "h">>, <<"c", "H">>, <<"C", "h">>, <<"C", "H">> >>,
                          <<"C", "H">>) >>)
 @@ (<<"da">> :> << Entry(<< <<"a", "a">>, <<"A", "a">>, <<"A", "A">> >>, <<"Aring">>) >>)
 @@ (<<"hr">> :> << Entry(<< <<"d", "zcaron">>, <<"D", "zcaron">> >>, <<"d", "zcaron">>),
                    Entry(<< <<"l", "j">>, <<"L", "j">>, <<"L", "J">> >>, <<"LJlig">>),
                    Entry(<< <<"N", "j">>, <<"N", "J">>, <<"n", "j">> >>, <<"NJlig">>) >>)
 @@ (<<"hu">> :> HungarianContractions)
 @@ (<<"nb">> :> << Entry(<< <<"a", "a">>, <<"A", "a">>, <<"A", "A">> >>, <<"Aring">>) >>)
 @@ (<<"nn">> :> << Entry(<< <<"a", "a">>, <<"A", "a">>, <<"A", "A">> >>, <<"Aring">>) >>)
 @@ (<<"sk">> :> << Entry(<< <<"c", "h">>, <<"c", "H">>, <<"C", "h">>, <<"C", "H">> >>,
                          <<"C", "h">>) >>)
 @@ (<<"cy">> :> << Entry(<< <<"f", "f">>, <<"F", "f">>, <<"F", "F">> >>, <<"F", "F">>) >>)

\* CONTRACTIONS_DICT: language tag -> list of (variants, index letter)
CONTRACTIONS_DICT ==
    (<<"ca">> :> << Entry(<< <<"l", "middot">>, <<"L", "middot">> >>, <<"L">>) >>)
 @@ (<<"cs">> :> << Entry(<< <<"c", "h">>, <<"c", "H">>, <<"C", "h">>, <<"C", "H">> >>,
                          <<"C", "H">>) >>)
 @@ (<<"da">> :> << Entry(<< <<"a", "a">>, <<"A", "a">>, <<"A", "A">> >>, <<"Aring">>) >>)
 @@ (<<"hr">> :> << Entry(<< <<"d", "zcaron">>, <<"D", "zcaron">> >>, <<"d", "zcaron">>),
                    Entry(<< <<"l", "j">>, <<"L", "j">>, <<"L", "J">> >>, <<"LJlig">>),
                    Entry(<< <<"N", "j">>, <<"N", "J">>, <<"n", "j">> >>, <<"NJlig">>) >>)
 @@ (<<"hu">> :> HungarianContractions)
 @@ (<<"nb">> :> << Entry(<< <<"a", "a">>, <<"A", "a">>, <<"A", "A">> >>, <<"Aring">>) >>)
 @@ (<<"nn">> :> << Entry(<< <<"a", "a">>, <<"A", "a">>, <<"A", "A">> >>, <<"Aring">>) >>)
 @@ (<<"sk">> :> << Entry(<< <<"c", "h">>, <<"c", "H">>, <<"C", "h">>, <<"C", "H">> >>,
                          <<"C", "h">>) >>)

\* dict.get(key): the value, or None when the key is absent; the
\* dictionary is read, not changed
DictGet(d, k) ==
    IF k \in DOMAIN d THEN [is_none |-> FALSE, value |-> d[k]]
    ELSE [is_none |-> TRUE, value |-> None]

\* the outcome of a lookup, with the keys get was called with so far
Looked(got, keys) == [is_none |-> got.is_none, value |-> got.value, keys |-> keys]

\* mutant: only the full tag is looked up
Contractions_full_tag_only(d, lang) == Looked(DictGet(d, lang), <<lang>>)

\* the contraction list first_letter consults: CONTRACTIONS_DICT.get of
\* the full tag first, and only when that gave None of the tag before the
\* first "_"
Contractions(d, lang) ==
    IF ~DictGet(d, lang).is_none THEN Looked(DictGet(d, lang), <<lang>>)
    ELSE Looked(DictGet(d, Split0(lang)), <<lang, Split0(lang)>>)

\* mutant: the prefix length is taken from the index letter instead of
\* the first variant
RECURSIVE ContractionLoop_letter_length(_, _, _)
ContractionLoop_letter_length(contractions, i, norm_unicode) ==
    IF i > Len(contractions) THEN Upper(norm_unicode[1])
    ELSE LET contraction == contractions[i]
             count == Len(contraction.letter)
         IN  IF Len(norm_unicode) >= count
                /\ Take(norm_unicode, count) \in Range(contraction.variants)
             THEN contraction.letter
             ELSE ContractionLoop_letter_length(contractions, i + 1, norm_unicode)

\* the loop over the contraction list from entry i on; the result when no
\* entry matches is the first character upper-cased
RECURSIVE ContractionLoop(_, _, _)
ContractionLoop(contractions, i, norm_unicode) ==
    IF i > Len(contractions) THEN Upper(norm_unicode[1])
    ELSE LET contraction == contractions[i]
             count == Len(contraction.variants[1])
         IN  IF Len(norm_unicode) >= count
                /\ Take(norm_unicode, count) \in Range(contraction.variants)
             THEN contraction.letter
             ELSE ContractionLoop(contractions, i + 1, norm_unicode)

\* mutant: no letter at all for a missing name
first_letter_no_blank(string, rlocale) ==
    IF string = None \/ Len(string) < 1 THEN <<>>
    ELSE LET norm_unicode == normalize(string)
             contractions == Contractions(contractions_dict, COLLATE_LANG)
         IN  IF ~contractions.is_none
             THEN ContractionLoop(contractions.value, 1, norm_unicode)
             ELSE Upper(norm_unicode[1])

\* the body of first_letter run on the dictionary d that the global
\* CONTRACTIONS_DICT names: the letter returned, the keys the dictionary
\* was read with, and the dictionary after the call.  The body reads d
\* with get and iterates the list found; it has no statement that assigns
\* to d or to an element of it.  rlocale is not read
first_letter_body(d, string, rlocale) ==
    IF string = None \/ Len(string) < 1
    THEN [ret |-> <<" ">>, lookups |-> <<>>, CONTRACTIONS_DICT |-> d]
    ELSE LET norm_unicode == normalize(string)
             contractions == Contractions(d, COLLATE_LANG)
         IN  [ret |-> IF ~contractions.is_none
                      THEN ContractionLoop(contractions.value, 1, norm_unicode)
                      ELSE Upper(norm_unicode[1]),
              lookups |-> contractions.keys,
              CONTRACTIONS_DICT |-> d]

\* first_letter(string, rlocale): the value returned
first_letter(string, rlocale) ==
    first_letter_body(contractions_dict, string, rlocale).ret

----------------------------------------------------------------------------
(* Collation adapter *)

\* primary_difference as defined when PyICU was imported
primary_difference_icu(prev_key, new_key, rlocale) ==
    PRIM_COLL_compare(COLLATE_LANG, prev_key, new_key) # 0

\* mutant: only the first of the two comparisons
primary_difference_fallback_one_sided(prev_key, new_key, rlocale) ==
    KeyGeq(sort_key(rlocale, prev_key \o <<"e">>),
           sort_key(rlocale, new_key \o <<"f">>))

\* mutant: "and" in place of "or"
primary_difference_fallback_and(prev_key, new_key, rlocale) ==
    KeyGeq(sort_key(rlocale, prev_key \o <<"e">>),
           sort_key(rlocale, new_key \o <<"f">>))
    /\ KeyGeq(sort_key(rlocale, new_key \o <<"e">>),
              sort_key(rlocale, prev_key \o <<"f">>))

\* primary_difference as defined when the import of PyICU failed
primary_difference_fallback(prev_key, new_key, rlocale) ==
    KeyGeq(sort_key(rlocale, prev_key \o <<"e">>),
           sort_key(rlocale, new_key \o <<"f">>))
    \/ KeyGeq(sort_key(rlocale, new_key \o <<"e">>),
              sort_key(rlocale, prev_key \o <<"f">>))

primary_difference(prev_key, new_key, rlocale) ==
    IF icu THEN primary_difference_icu(prev_key, new_key, rlocale)
    ELSE primary_difference_fallback(prev_key, new_key, rlocale)

----------------------------------------------------------------------------
(* Index builder and index lookup *)

_KEYPERSON == 0
_KEYPLACE == 1
_KEYEVENT == 2
_ALPHAEVENT == 3

\* the process-wide locale, the default of every rlocale parameter
glocale == COLLATE_LANG

\* the event types of the database, as EventType.xml_str() gives them
Death == <<"D", "e", "a", "t", "h">>
Degree == <<"D", "e", "g", "r", "e", "e">>
Adopted == <<"A", "d", "o", "p", "t", "e", "d">>
Probate == <<"P", "r", "o", "b", "a", "t", "e">>

\* rlocale.translation.sgettext(msgid): the message catalog of the
\* Hungarian locale has a label for three of the event types, the other
\* catalogs return the msgid
sgettext(rlocale, msgid) ==
    IF Split0(rlocale) # <<"hu">> THEN msgid
    ELSE IF msgid = Death THEN <<"H", "a", "l", "a", "l">>
    ELSE IF msgid = Degree THEN <<"S", "z", "a", "k">>
    ELSE IF msgid = Adopted THEN <<"C", "s", "a", "l", "a", "d">>
    ELSE msgid

\* The sort strings of the primary names of the people of the database,
\* by handle.
dbase ==
    <<  <<"A", "a", "b", "e", "r", "g">>,
        <<"A", "p", "p", "l", "e">>,
        <<"A", "ring", "s", "e", "n">>,
        <<"Z", "o", "l", "a">>,
        <<"d", "z", "s", "e", "k">>,
        <<"D", "o", "b">>,
        <<>>  >>

Handles == 1..Len(dbase)

\* the display names of the places of the database, by handle
place_db ==
    <<  <<"Z", "o", "l", "a">>,
        <<"d", "z", "s", "e", "k">>,
        <<"aring", "l">>  >>

PlaceHandles == 1..Len(place_db)

\* the database of the report, as the key name helpers read it
report_db == [sort_string |-> dbase, place_name |-> place_db]

\* _nd.sort_string(person.get_primary_name())
get_person_keyname(db, handle) == db.sort_string[handle]

\* utils.place_name(dbase, handle)
get_place_keyname(db, handle) == db.place_name[handle]

\* the keyname of one element of handle_list: for an event key the
\* element is the type label itself, translated when rlocale is not the
\* default locale
KeyName(db, handle, key, rlocale) ==
    IF key = _KEYPERSON THEN get_person_keyname(db, handle)
    ELSE IF key = _KEYPLACE THEN get_place_keyname(db, handle)
    ELSE IF rlocale # glocale THEN sgettext(rlocale, handle)
    ELSE handle

\* mutant: delete every element equal to key
RECURSIVE Remove_all(_, _)
Remove_all(lst, key) ==
    IF lst = <<>> THEN <<>>
    ELSE IF Head(lst) = key THEN Remove_all(Tail(lst), key)
    ELSE <<Head(lst)>> \o Remove_all(Tail(lst), key)

\* list.remove(key): delete the first element equal to key
RECURSIVE Remove(_, _)
Remove(lst, key) ==
    IF lst = <<>> THEN <<>>
    ELSE IF Head(lst) = key THEN Tail(lst)
    ELSE <<Head(lst)>> \o Remove(Tail(lst), key)

\* insert x behind every element whose sort key is not greater
RECURSIVE Insert(_, _, _)
Insert(rlocale, sorted, x) ==
    IF sorted = <<>> THEN <<x>>
    ELSE IF KeyLess(sort_key(rlocale, x), sort_key(rlocale, Head(sorted)))
         THEN <<x>> \o sorted
         ELSE <<Head(sorted)>> \o Insert(rlocale, Tail(sorted), x)

\* mutant: the list is left in extraction order
Sort_unsorted(rlocale, lst) == lst

\* list.sort(key=rlocale.sort_key): stable, ascending
RECURSIVE Sort(_, _)
Sort(rlocale, lst) ==
    IF lst = <<>> THEN <<>>
    ELSE Insert(rlocale, Sort(rlocale, SubSeq(lst, 1, Len(lst) - 1)), lst[Len(lst)])

----------------------------------------------------------------------------
(* The objects of a call.  Python passes lists by reference and every     *)
(* function can reach the module global CONTRACTIONS_DICT, so what a body  *)
(* does to them in place is visible to its caller.  The body of a function *)
(* is run on the record of the mutable objects it can reach, each under    *)
(* the name the code gives it: a statement that changes an object in       *)
(* place gives the record with that object changed, a statement that only  *)
(* reads one leaves the record as it is.  In none of these functions do    *)
(* two names refer to the same object.                                     *)

\* index_list.append(ltr), ltr being what the call f of first_letter
\* returned
AppendLetter(objs, f) ==
    [objs EXCEPT !.CONTRACTIONS_DICT = f.CONTRACTIONS_DICT,
                 !.index_list = Append(@, f.ret)]

\* for handle in handle_list, from position i on: first_letter is called
\* with its default locale
RECURSIVE ForHandles(_, _, _, _, _)
ForHandles(objs, i, db, key, rlocale) ==
    IF i > Len(objs.handle_list) THEN objs
    ELSE ForHandles(
             AppendLetter(objs,
                 first_letter_body(objs.CONTRACTIONS_DICT,
                     KeyName(db, objs.handle_list[i], key, rlocale), glocale)),
             i + 1, db, key, rlocale)

\* the objects of get_first_letters after index_list = [] and the
\* extraction loop
Extracted(db, handle_list, key, rlocale) ==
    ForHandles([CONTRACTIONS_DICT |-> contractions_dict,
                handle_list |-> handle_list,
                index_list |-> <<>>], 1, db, key, rlocale)

\* the letters the extraction loop appends
ExtractLetters(db, handle_list, key, rlocale) ==
    Extracted(db, handle_list, key, rlocale).index_list

\* mutant: an element without primary difference is not removed
RECURSIVE DedupLoop_no_remove(_, _, _, _, _, _)
DedupLoop_no_remove(copy, i, first, prev_index, index_list, rlocale) ==
    IF i > Len(copy) THEN index_list
    ELSE IF first \/ primary_difference(prev_index, copy[i], rlocale)
         THEN DedupLoop_no_remove(copy, i + 1, FALSE, copy[i], index_list, rlocale)
         ELSE DedupLoop_no_remove(copy, i + 1, first, prev_index, index_list, rlocale)

\* mutant: prev_index stays at the first letter of the list
RECURSIVE DedupLoop_stale_prev(_, _, _, _, _, _)
DedupLoop_stale_prev(copy, i, first, prev_index, index_list, rlocale) ==
    IF i > Len(copy) THEN index_list
    ELSE IF first
         THEN DedupLoop_stale_prev(copy, i + 1, FALSE, copy[i], index_list, rlocale)
         ELSE IF primary_difference(prev_index, copy[i], rlocale)
         THEN DedupLoop_stale_prev(copy, i + 1, FALSE, prev_index, index_list, rlocale)
         ELSE DedupLoop_stale_prev(copy, i + 1, first, prev_index,
                                   Remove(index_list, copy[i]), rlocale)

\* the dedup loop of get_first_letters: copy is the slice copy iterated,
\* i the position in it, index_list the list being mutated
RECURSIVE DedupLoop(_, _, _, _, _, _)
DedupLoop(copy, i, first, prev_index, index_list, rlocale) ==
    IF i > Len(copy) THEN index_list
    ELSE IF first \/ primary_difference(prev_index, copy[i], rlocale)
         THEN DedupLoop(copy, i + 1, FALSE, copy[i], index_list, rlocale)
         ELSE DedupLoop(copy, i + 1, first, prev_index,
                        Remove(index_list, copy[i]), rlocale)

\* index_list.sort(key=rlocale.sort_key): the list is sorted in place
SortInPlace(objs, rlocale) ==
    [objs EXCEPT !.index_list = Sort(rlocale, @)]

\* for key in index_list[:] with index_list.remove(key): the slice is a
\* new list, the removals act on index_list
Deduplicated(objs, rlocale) ==
    [objs EXCEPT !.index_list = DedupLoop(@, 1, TRUE, None, @, rlocale)]

\* the body of get_first_letters: the objects when it returns index_list
get_first_letters_body(db, handle_list, key, rlocale) ==
    Deduplicated(SortInPlace(Extracted(db, handle_list, key, rlocale), rlocale),
                 rlocale)

\* get_first_letters: the list returned
get_first_letters(db, handle_list, key, rlocale) ==
    get_first_letters_body(db, handle_list, key, rlocale).index_list

\* the scan of get_index_letter from position i on
RECURSIVE IndexLoop(_, _, _, _)
IndexLoop(letter, index_list, i, rlocale) ==
    IF i > Len(index_list) THEN [found |-> FALSE, letter |-> letter]
    ELSE IF ~primary_difference(letter, index_list[i], rlocale)
         THEN [found |-> TRUE, letter |-> index_list[i]]
         ELSE IndexLoop(letter, index_list, i + 1, rlocale)

\* mutant: the scan does not stop at the first match, the last one wins
RECURSIVE IndexLoop_last_match(_, _, _, _)
IndexLoop_last_match(letter, index_list, i, rlocale) ==
    IF i < 1 THEN [found |-> FALSE, letter |-> letter]
    ELSE IF ~primary_difference(letter, index_list[i], rlocale)
         THEN [found |-> TRUE, letter |-> index_list[i]]
         ELSE IndexLoop_last_match(letter, index_list, i - 1, rlocale)

get_index_letter_last_match(letter, index_list, rlocale) ==
    IndexLoop_last_match(letter, index_list, Len(index_list), rlocale)

\* the body of get_index_letter: for index in index_list iterates the
\* list passed, no statement changes it; found is FALSE when the warning
\* is logged
get_index_letter_body(letter, index_list, rlocale) ==
    [index_list |-> index_list,
     ret |-> IndexLoop(letter, index_list, 1, rlocale)]

\* get_index_letter: the value returned
get_index_letter(letter, index_list, rlocale) ==
    get_index_letter_body(letter, index_list, rlocale).ret

----------------------------------------------------------------------------
(* Navigation renderer: alphabet_navigation.  The fragment is the sequence *)
(* of its rows (the <ul> elements); a row is the sequence of its links, a  *)
(* link being the text of the anchor, which is also its href.              *)

num_of_cols == 26

\* the text shown for the blank letter
Nbsp == <<"&", "n", "b", "s", "p", ";">>

\* mutant: every occurrence of a letter gets a key of its own
DistinctKeys_with_repeats(index_list) == index_list

\* the keys of sorted_set, in insertion order: one per distinct letter
RECURSIVE DistinctKeys(_)
DistinctKeys(index_list) ==
    IF index_list = <<>> THEN <<>>
    ELSE LET front == DistinctKeys(SubSeq(index_list, 1, Len(index_list) - 1))
             last == index_list[Len(index_list)]
         IN  IF last \in Range(front) THEN front ELSE Append(front, last)

\* the <li> appended for sorted_alpha_index[index] (0-based)
MenuItem(sorted_alpha_index, index) ==
    IF sorted_alpha_index[index + 1] = <<" ">> THEN Nbsp
    ELSE sorted_alpha_index[index + 1]

\* the while loop filling one row
RECURSIVE WhileCols(_, _, _, _)
WhileCols(sorted_alpha_index, index, cols, unordered) ==
    IF cols <= num_of_cols /\ index < Len(sorted_alpha_index)
    THEN WhileCols(sorted_alpha_index, index + 1, cols + 1,
                   Append(unordered, MenuItem(sorted_alpha_index, index)))
    ELSE [unordered |-> unordered, index |-> index]

\* for row in range(num_of_rows): the range is fixed when the loop starts
RECURSIVE ForRows(_, _, _, _, _)
ForRows(sorted_alpha_index, row, rows, index, alphabetnavigation) ==
    IF row >= rows THEN alphabetnavigation
    ELSE LET w == WhileCols(sorted_alpha_index, index, 0, <<>>)
         IN  ForRows(sorted_alpha_index, row + 1, rows, w.index,
                     Append(alphabetnavigation, w.unordered))

\* the objects of alphabet_navigation after the loop over index_list: the
\* list is iterated, and sorted_set holds a key for each distinct letter
Counted(index_list) ==
    [index_list |-> index_list, sorted_set |-> DistinctKeys(index_list)]

\* mutant: index_list.sort(key=rlocale.sort_key) before the keys are
\* ordered
SortedAlphaIndex_sort_in_place(objs, rlocale) ==
    [index_list |-> Sort(rlocale, objs.index_list),
     sorted_set |-> objs.sorted_set,
     sorted_alpha_index |-> Sort(rlocale, objs.sorted_set)]

\* sorted_alpha_index = sorted(sorted_set, key=rlocale.sort_key): sorted
\* builds a new list
SortedAlphaIndex(objs, rlocale) ==
    [index_list |-> objs.index_list,
     sorted_set |-> objs.sorted_set,
     sorted_alpha_index |-> Sort(rlocale, objs.sorted_set)]

\* the lists of alphabet_navigation when the layout begins; the layout
\* reads sorted_alpha_index by position and changes none of them
alphabet_navigation_lists(index_list, rlocale) ==
    SortedAlphaIndex(Counted(index_list), rlocale)

\* mutant: the empty index is laid out like any other
Fragment_no_none(sorted_alpha_index) ==
    [is_none |-> FALSE,
     rows |-> ForRows(sorted_alpha_index, 0,
                      (Len(sorted_alpha_index) \div num_of_cols) + 1, 0, <<>>)]

\* the statements of alphabet_navigation from "if not sorted_alpha_index"
\* on: is_none is TRUE when None is returned
Fragment(sorted_alpha_index) ==
    IF sorted_alpha_index = <<>>
    THEN [is_none |-> TRUE, rows |-> <<>>]
    ELSE [is_none |-> FALSE,
          rows |-> ForRows(sorted_alpha_index, 0,
                           (Len(sorted_alpha_index) \div num_of_cols) + 1, 0, <<>>)]

\* the value returned from the lists objs, and index_list after the call
Returned(objs) ==
    [ret |-> Fragment(objs.sorted_alpha_index), index_list |-> objs.index_list]

\* the body of alphabet_navigation
alphabet_navigation_body(index_list, rlocale) ==
    Returned(alphabet_navigation_lists(index_list, rlocale))

\* alphabet_navigation: the value returned
alphabet_navigation(index_list, rlocale) ==
    alphabet_navigation_body(index_list, rlocale).ret

----------------------------------------------------------------------------
(* The filter rule HasGalleryBase.  A rule object is the record of its     *)
(* attributes: list, the two values the rule was created with (the count   *)
(* as text and the comparison), and, once prepare has run, count_type and  *)
(* userSelectedCount.                                                      *)

\* the exceptions a call can end with
ValueError == <<"ValueError">>

AttributeError == <<"AttributeError">>

\* the characters int strips from both ends of a text
Whitespace == {" "}

RECURSIVE lstrip(_)
lstrip(s) == IF s # <<>> /\ Head(s) \in Whitespace THEN lstrip(Tail(s)) ELSE s

RECURSIVE rstrip(_)
rstrip(s) ==
    IF s # <<>> /\ s[Len(s)] \in Whitespace THEN rstrip(SubSeq(s, 1, Len(s) - 1))
    ELSE s

\* str.strip()
strip(s) == rstrip(lstrip(s))

\* the text behind an optional sign
Unsigned(s) == IF s # <<>> /\ Head(s) \in {"+", "-"} THEN Tail(s) ELSE s

\* a decimal literal: digits, with single underscores between digits
IsDecimalLiteral(s) ==
    /\ s # <<>>
    /\ \A i \in 1..Len(s) :
           \/ s[i] \in Range(Digits)
           \/ /\ s[i] = "_"
              /\ i > 1 /\ s[i - 1] \in Range(Digits)
              /\ i < Len(s) /\ s[i + 1] \in Range(Digits)

\* the literal without its underscores
RECURSIVE DigitsOf(_)
DigitsOf(s) ==
    IF s = <<>> THEN <<>>
    ELSE IF Head(s) = "_" THEN DigitsOf(Tail(s))
    ELSE <<Head(s)>> \o DigitsOf(Tail(s))

\* the number a non-empty text of decimal digits stands for
RECURSIVE DecimalValue(_)
DecimalValue(s) ==
    IF Len(s) = 1 THEN IndexOf(Digits, s[1]) - 1
    ELSE 10 * DecimalValue(SubSeq(s, 1, Len(s) - 1)) + (IndexOf(Digits, s[Len(s)]) - 1)

\* int(s) raises ValueError: unless s is, between optional whitespace, an
\* optional sign and a decimal literal
int_raises(s) == ~IsDecimalLiteral(Unsigned(strip(s)))

\* int(s): the number, or the exception
int(s) ==
    IF int_raises(s) THEN ValueError
    ELSE IF Head(strip(s)) = "-" THEN 0 - DecimalValue(DigitsOf(Unsigned(strip(s))))
    ELSE DecimalValue(DigitsOf(Unsigned(strip(s))))

\* no rule object exists
NoRule == [list |-> <<>>]

\* the count_type prepare assigns
count_type_of(self) ==
    IF self.list[2] = "less than" THEN 0
    ELSE IF self.list[2] = "greater than" THEN 2
    ELSE 1

\* self.name = value: the attribute is created or overwritten, the other
\* attributes stay
SetAttr(self, name, value) == (name :> value) @@ self

\* prepare(self, db, user): the object after the call.  count_type is
\* assigned first; when int raises, userSelectedCount is not assigned and
\* keeps the value an earlier prepare gave it, if there was one
prepare(self) ==
    IF int_raises(self.list[1])
    THEN SetAttr(self, "count_type", count_type_of(self))
    ELSE SetAttr(SetAttr(self, "count_type", count_type_of(self)),
                 "userSelectedCount", int(self.list[1]))

\* what the call prepare(self, db, user) ends with: None, or the exception
\* of int
prepare_result(self) ==
    IF int_raises(self.list[1]) THEN ValueError ELSE None

\* mutant: "less than" also accepts the count itself
apply_less_or_equal(self, media_list) ==
    LET count == Len(media_list)
    IN  [self |-> self,
         ret |-> IF self.count_type = 0 THEN count <= self.userSelectedCount
                 ELSE IF self.count_type = 2 THEN count > self.userSelectedCount
                 ELSE count = self.userSelectedCount]

\* apply(self, db, obj): the value returned, or AttributeError when
\* prepare has not assigned the two attributes, and the object after the
\* call; media_list is obj.get_media_list().  The body reads count_type
\* and userSelectedCount and has no statement that assigns to self
apply(self, media_list) ==
    LET count == Len(media_list)
    IN  [self |-> self,
         ret |-> IF "count_type" \notin DOMAIN self
                    \/ "userSelectedCount" \notin DOMAIN self
                 THEN AttributeError
                 ELSE IF self.count_type = 0 THEN count < self.userSelectedCount
                 ELSE IF self.count_type = 2 THEN count > self.userSelectedCount
                 ELSE count = self.userSelectedCount]

----------------------------------------------------------------------------
(* sort_people: the surname groups of a list of people *)

\* the primary names of the people of dbase, by handle: the group-as name
\* and the primary surname; the sort string of person h is dbase[h]
person_db ==
    << [group_as |-> <<>>, surname |-> <<"A", "a", "b", "e", "r", "g">>],
       [group_as |-> <<>>, surname |-> <<"A", "p", "p", "l", "e">>],
       [group_as |-> <<>>, surname |-> <<"A", "ring", "s", "e", "n">>],
       [group_as |-> <<"A", "p", "p", "l", "e">>, surname |-> <<"Z", "o", "l", "a">>],
       [group_as |-> <<>>, surname |-> <<"d", "z", "s", "e", "k">>],
       [group_as |-> <<>>, surname |-> <<" ", " ">>],
       [group_as |-> <<>>, surname |-> None] >>

\* dbase.get_name_group_mapping(surname): the name the database groups
\* the surname under, the surname itself when it has no mapping
get_name_group_mapping(surname) ==
    IF surname = <<"d", "z", "s", "e", "k">> THEN <<"Z", "o", "l", "a">> ELSE surname

\* str.isspace
isspace(s) == Len(s) >= 1 /\ \A i \in 1..Len(s) : s[i] = " "

\* the surname a person is filed under
Surname(person_handle) ==
    LET primary_name == person_db[person_handle]
        surname == IF primary_name.group_as # <<>> THEN primary_name.group_as
                   ELSE get_name_group_mapping(primary_name.surname)
    IN  IF surname = None \/ isspace(surname) THEN <<>> ELSE surname

\* the keys of sname_sub, in insertion order
SurnameKeys(handle_list) ==
    DistinctKeys([i \in 1..Len(handle_list) |-> Surname(handle_list[i])])

\* sname_sub[name]: the handles appended under name, in list order
RECURSIVE HandlesOf(_, _)
HandlesOf(name, handle_list) ==
    IF handle_list = <<>> THEN <<>>
    ELSE LET front == HandlesOf(name, SubSeq(handle_list, 1, Len(handle_list) - 1))
             person_handle == handle_list[Len(handle_list)]
         IN  IF Surname(person_handle) = name THEN Append(front, person_handle)
             ELSE front

RECURSIVE InsertBySortName(_, _, _)
InsertBySortName(rlocale, sorted, x) ==
    IF sorted = <<>> THEN <<x>>
    ELSE IF KeyLess(sort_key(rlocale, dbase[x]), sort_key(rlocale, dbase[Head(sorted)]))
         THEN <<x>> \o sorted
         ELSE <<Head(sorted)>> \o InsertBySortName(rlocale, Tail(sorted), x)

\* mutant: the handles of a surname are left in list order
SortBySortName_unsorted(rlocale, handles) == handles

\* sorted(((sortnames[x], x) for x in sname_sub[name]), key=...), reduced
\* to the handles
RECURSIVE SortBySortName(_, _)
SortBySortName(rlocale, handles) ==
    IF handles = <<>> THEN <<>>
    ELSE InsertBySortName(rlocale,
             SortBySortName(rlocale, SubSeq(handles, 1, Len(handles) - 1)),
             handles[Len(handles)])

\* sort_people: the list of (surname, handles) pairs
sort_people(handle_list, rlocale) ==
    LET temp_list == Sort(rlocale, SurnameKeys(handle_list))
    IN  [i \in 1..Len(temp_list) |->
            [name |-> temp_list[i],
             entries |-> SortBySortName(rlocale, HandlesOf(temp_list[i], handle_list))]]

----------------------------------------------------------------------------
(* The state machine: one action per function of the indexing core.  The   *)
(* report runs single-threaded: a page generator calls into the core when  *)
(* no call is active (call.op = "none"), the action records the call, its  *)
(* arguments and its result in call, and Return hands control back.        *)

\* characters of the free texts passed to first_letter
InChars == {"d", "D", "z", "Z", "s", "S"}

FirstLetterInputs ==
    SeqsUpTo(InChars, MaxLen) \cup Range(dbase) \cup {None}

\* keys compared by primary_difference
IndexLetters ==
    { <<" ">>, <<"A">>, <<"a">>, <<"Aring">>, <<"D">>, <<"D", "Z">>,
      <<"D", "Z", "S">>, <<"E">>, <<"F">>, <<"Z">> }

\* letters and index lists passed directly to get_index_letter
LookupLetters == { <<"A">>, <<"Aring">>, <<"D">>, <<"D", "Z">>, <<"E">> }

BucketLetters == { <<"A">>, <<"Aring">>, <<"D">>, <<"D", "Z">>, <<"Z">> }

Keys == {_KEYPERSON, _KEYPLACE, _ALPHAEVENT}

\* the letters of a large (Hungarian) index, in no particular order
NavPool ==
    << <<"N">>, <<" ">>, <<"Z">>, <<"A">>, <<"S", "Z">>, <<"B">>, <<"Y">>,
       <<"C">>, <<"Z", "S">>, <<"D">>, <<"T">>, <<"C", "S">>, <<"E">>,
       <<"T", "Y">>, <<"F">>, <<"S">>, <<"D", "Z">>, <<"G">>, <<"R">>,
       <<"H">>, <<"P">>, <<"D", "Z", "S">>, <<"J">>, <<"O">>, <<"G", "Y">>,
       <<"K">>, <<"N", "Y">>, <<"L">>, <<"L", "Y">>, <<"Aring">> >>

Reverse(s) == [i \in 1..Len(s) |-> s[Len(s) + 1 - i]]

\* the index lists passed to alphabet_navigation: every short list of
\* bucket letters, and the first n letters of NavPool, forwards or
\* backwards, followed by a second occurrence of the first d of them
NavInputs ==
    SeqsUpTo(BucketLetters \cup {<<" ">>}, MaxIndex)
    \cup { Take(NavPool, n) \o Take(NavPool, d) :
              n \in 0..MaxNav, d \in 0..MaxDup }
    \cup { Reverse(Take(NavPool, n)) \o Take(NavPool, d) :
              n \in 0..MaxNav, d \in 0..MaxDup }

Init ==
    /\ icu \in BOOLEAN
    /\ COLLATE_LANG \in CollationTags
    /\ contractions_dict = CONTRACTIONS_DICT
    /\ call = [op |-> "none"]
    /\ rule = NoRule

FirstLetter ==
    /\ call.op = "none"
    /\ \E string \in FirstLetterInputs, rlocale \in Locales :
          /\ call' = [op |-> "first_letter", string |-> string, rlocale |-> rlocale,
                      ret |-> first_letter(string, rlocale),
                      lookups |->
                          first_letter_body(contractions_dict, string, rlocale).lookups]
          /\ contractions_dict' =
                 first_letter_body(contractions_dict, string, rlocale).CONTRACTIONS_DICT
    /\ UNCHANGED <<icu, COLLATE_LANG, rule>>

PrimaryDifference ==
    /\ call.op = "none"
    /\ \E prev_key \in IndexLetters, new_key \in IndexLetters, rlocale \in Locales :
          call' = [op |-> "primary_difference", prev_key |-> prev_key,
                   new_key |-> new_key, rlocale |-> rlocale,
                   ret |-> primary_difference(prev_key, new_key, rlocale)]
    /\ UNCHANGED <<icu, COLLATE_LANG, contractions_dict, rule>>

\* the locales a page generator passes with a key: the event list page
\* passes _ALPHAEVENT and leaves rlocale at its default, the family pages
\* pass the locale of the report
CallerLocales(key) == IF key = _ALPHAEVENT THEN {glocale} ELSE Locales

\* the type labels the event list page collects: the types of the
\* database in the language of the report
EventLabels ==
    { sgettext(rlocale, type) :
        rlocale \in Locales, type \in {Death, Degree, Adopted, Probate} }

\* the handle lists passed with a key: person handles, place handles, or
\* for an event key the type labels themselves
HandleLists(key) ==
    IF key = _KEYPERSON THEN SeqsUpTo(Handles, MaxHandles)
    ELSE IF key = _KEYPLACE THEN SeqsUpTo(PlaceHandles, MaxHandles)
    ELSE SeqsUpTo(EventLabels, MaxHandles)

GetFirstLetters ==
    /\ call.op = "none"
    /\ \E key \in Keys :
          \E handle_list \in HandleLists(key), rlocale \in CallerLocales(key) :
              \E objs \in {get_first_letters_body(report_db, handle_list, key, rlocale)} :
                  /\ call' = [op |-> "get_first_letters", handle_list |-> handle_list,
                              key |-> key, rlocale |-> rlocale,
                              ret |-> objs.index_list,
                              handle_list_after |-> objs.handle_list]
                  /\ contractions_dict' = objs.CONTRACTIONS_DICT
    /\ UNCHANGED <<icu, COLLATE_LANG, rule>>

\* pers_fam_dict.keys(): a handle occurs once
IsKeyList(handle_list) ==
    \A i, j \in 1..Len(handle_list) :
        handle_list[i] = handle_list[j] => i = j

\* the family list page, after it built index_list from the people of the
\* page: for one surname group of sort_people that has a name it calls
\* get_index_letter(first_letter(surname), index_list, rlocale); a group
\* without a name gets a blank letter and no call
LookupItem ==
    /\ call.op = "get_first_letters"
    /\ call.key = _KEYPERSON
    /\ IsKeyList(call.handle_list)
    /\ \E group \in Range(sort_people(call.handle_list, call.rlocale)) :
          LET surname == group.name
              letter == first_letter(surname, glocale)
          IN  /\ surname # <<>>
              /\ ~isspace(surname)
              /\ call' = [op |-> "get_index_letter", derived |-> TRUE,
                          surname |-> surname,
                          letter |-> letter, index_list |-> call.ret,
                          rlocale |-> call.rlocale,
                          ret |-> get_index_letter(letter, call.ret, call.rlocale),
                          index_list_after |->
                              get_index_letter_body(letter, call.ret,
                                                    call.rlocale).index_list]
              /\ contractions_dict' =
                     first_letter_body(contractions_dict, surname,
                                       glocale).CONTRACTIONS_DICT
    /\ UNCHANGED <<icu, COLLATE_LANG, rule>>

\* get_index_letter on an arbitrary letter and index list
GetIndexLetter ==
    /\ call.op = "none"
    /\ \E letter \in LookupLetters, index_list \in SeqsUpTo(BucketLetters, MaxIndex),
          rlocale \in Locales :
          call' = [op |-> "get_index_letter", derived |-> FALSE,
                   letter |-> letter, index_list |-> index_list,
                   rlocale |-> rlocale,
                   ret |-> get_index_letter(letter, index_list, rlocale),
                   index_list_after |->
                       get_index_letter_body(letter, index_list, rlocale).index_list]
    /\ UNCHANGED <<icu, COLLATE_LANG, contractions_dict, rule>>

\* alphabet_navigation on an index list
AlphabetNavigation ==
    /\ call.op = "none"
    /\ \E index_list \in NavInputs, rlocale \in Locales :
          \E body \in {alphabet_navigation_body(index_list, rlocale)} :
              call' = [op |-> "alphabet_navigation", index_list |-> index_list,
                       rlocale |-> rlocale,
                       ret |-> body.ret,
                       index_list_after |-> body.index_list]
    /\ UNCHANGED <<icu, COLLATE_LANG, contractions_dict, rule>>

\* the caller is done with the result
Return ==
    /\ call.op # "none"
    /\ call' = [op |-> "none"]
    /\ UNCHANGED <<icu, COLLATE_LANG, contractions_dict, rule>>

Next ==
    \/ FirstLetter
    \/ PrimaryDifference
    \/ GetFirstLetters
    \/ LookupItem
    \/ GetIndexLetter
    \/ AlphabetNavigation
    \/ Return

Spec == Init /\ [][Next]_vars

----------------------------------------------------------------------------
(* State machine of a filter rule: it is created with its two values,      *)
(* prepared, and applied to objects.                                       *)

\* the characters of the count a rule is created with
CountChars == {"0", "1", " ", "+", "-", "_", "x"}

\* the count a rule is created with, as the text of the filter editor
CountStrings == SeqsUpTo(CountChars, MaxDigits)

\* the comparisons of the filter editor, and one it does not offer
Comparisons == {"less than", "greater than", "equal to", "lesser than"}

MediaRefs == {"m1", "m2"}

InitRule ==
    /\ icu = FALSE
    /\ COLLATE_LANG = en_GB
    /\ contractions_dict = CONTRACTIONS_DICT
    /\ call = [op |-> "none"]
    /\ \E count \in CountStrings, comparison \in Comparisons :
          rule = [list |-> <<count, comparison>>]

Prepare ==
    /\ call.op = "none"
    /\ rule' = prepare(rule)
    /\ call' = [op |-> "prepare", self |-> rule, ret |-> prepare_result(rule)]
    /\ UNCHANGED <<icu, COLLATE_LANG, contractions_dict>>

\* apply is called on a rule whose prepare has returned
Apply ==
    /\ call.op = "none"
    /\ "userSelectedCount" \in DOMAIN rule
    /\ \E media_list \in SeqsUpTo(MediaRefs, MaxMedia) :
          /\ call' = [op |-> "apply", self |-> rule, media_list |-> media_list,
                      ret |-> apply(rule, media_list).ret]
          /\ rule' = apply(rule, media_list).self
    /\ UNCHANGED <<icu, COLLATE_LANG, contractions_dict>>

NextRule ==
    \/ Prepare
    \/ Apply
    \/ Return

SpecRule == InitRule /\ [][NextRule]_vars

----------------------------------------------------------------------------
(* The sorting helpers of the page generators: sort_event_types,           *)
(* sort_people and add_birthdate.  They read the database and the locale   *)
(* passed to them, and neither COLLATE_LANG nor the contraction table.     *)

\* a < b for two str: by code points, a proper prefix is smaller
StrLess(a, b) ==
    KeyLess([i \in 1..Len(a) |-> CodePoint(a[i])],
            [i \in 1..Len(b) |-> CodePoint(b[i])])

\* the events of the database by handle: type, sort value of the date,
\* Gramps ID, and whether a person or family refers to the event
event_db ==
    << [type |-> Death,   sort_value |-> 2, gid |-> "E0001", backlinks |-> TRUE],
       [type |-> Degree,  sort_value |-> 1, gid |-> "E0002", backlinks |-> TRUE],
       [type |-> Death,   sort_value |-> 1, gid |-> "E0003", backlinks |-> TRUE],
       [type |-> Adopted, sort_value |-> 0, gid |-> "E0004", backlinks |-> TRUE],
       [type |-> Death,   sort_value |-> 1, gid |-> "E0005", backlinks |-> FALSE] >>

\* (a, h) < (b, k) for two (sort value, handle) tuples
TupleLess(x, y) == x[1] < y[1] \/ (x[1] = y[1] /\ x[2] < y[2])

RECURSIVE InsertTuple(_, _)
InsertTuple(sorted, x) ==
    IF sorted = <<>> THEN <<x>>
    ELSE IF TupleLess(x, Head(sorted)) THEN <<x>> \o sorted
    ELSE <<Head(sorted)>> \o InsertTuple(Tail(sorted), x)

\* mutant: the lists are left in the order of event_handle_list
SortTuples_unsorted(lst) == lst

\* tup_list.sort()
RECURSIVE SortTuples(_)
SortTuples(lst) ==
    IF lst = <<>> THEN <<>>
    ELSE InsertTuple(SortTuples(SubSeq(lst, 1, Len(lst) - 1)), lst[Len(lst)])

\* the tuples appended to event_dict[event_type]
RECURSIVE TuplesOfType(_, _, _, _)
TuplesOfType(db, event_type, event_handle_list, rlocale) ==
    IF event_handle_list = <<>> THEN <<>>
    ELSE LET event_handle == event_handle_list[Len(event_handle_list)]
             front == TuplesOfType(db, event_type,
                          SubSeq(event_handle_list, 1, Len(event_handle_list) - 1),
                          rlocale)
         IN  IF sgettext(rlocale, db[event_handle].type) = event_type
             THEN Append(front, <<db[event_handle].sort_value, event_handle>>)
             ELSE front

RECURSIVE InsertByStr(_, _)
InsertByStr(sorted, item) ==
    IF sorted = <<>> THEN <<item>>
    ELSE IF StrLess(item.event_type, Head(sorted).event_type) THEN <<item>> \o sorted
    ELSE <<Head(sorted)>> \o InsertByStr(Tail(sorted), item)

\* retval.sort(key=lambda item: str(item[0]))
RECURSIVE SortByStr(_)
SortByStr(retval) ==
    IF retval = <<>> THEN <<>>
    ELSE InsertByStr(SortByStr(SubSeq(retval, 1, Len(retval) - 1)), retval[Len(retval)])

\* sort_event_types: the list of (event_type, event_list) pairs
sort_event_types(db, event_types, event_handle_list, rlocale) ==
    LET keys == DistinctKeys(event_types)
    IN  SortByStr([i \in 1..Len(keys) |->
            [event_type |-> keys[i],
             event_list |-> SortTuples(
                 TuplesOfType(db, keys[i], event_handle_list, rlocale))]])

\* the labels a page generator of locale rlocale may pass as event_types
TypeLabels(rlocale) == {sgettext(rlocale, t) : t \in {Death, Degree, Adopted}}

EventHandles == 1..Len(event_db)

\* the birth and the death (or its fallback) of the people of dbase, by
\* handle: the sort value of the date of the event, 0 standing for an
\* empty date; has_birth is FALSE without birth reference and has_death
\* is FALSE when get_death_or_fallback finds no event
vital_db ==
    << [has_birth |-> TRUE,  birth |-> 3, has_death |-> TRUE,  death |-> 5],
       [has_birth |-> TRUE,  birth |-> 1, has_death |-> FALSE, death |-> 0],
       [has_birth |-> FALSE, birth |-> 0, has_death |-> TRUE,  death |-> 4],
       [has_birth |-> TRUE,  birth |-> 2, has_death |-> TRUE,  death |-> 4],
       [has_birth |-> TRUE,  birth |-> 1, has_death |-> FALSE, death |-> 0],
       [has_birth |-> TRUE,  birth |-> 0, has_death |-> FALSE, death |-> 0],
       [has_birth |-> FALSE, birth |-> 0, has_death |-> FALSE, death |-> 0] >>

\* rlocale.get_date(date): the text of the date in the language of the
\* locale, the empty text for an empty date
get_date(rlocale, sort_value) ==
    IF sort_value = 0 THEN <<>> ELSE <<Split0(rlocale)[1], sort_value>>

\* the tuple appended for one person
BirthdateEntry(person_handle, rlocale) ==
    LET person == vital_db[person_handle]
    IN  << IF person.has_birth THEN person.birth ELSE 0,
           IF person.has_birth THEN get_date(rlocale, person.birth) ELSE <<>>,
           IF person.has_death THEN get_date(rlocale, person.death) ELSE <<>>,
           person_handle >>

\* add_birthdate: one tuple per handle, in the order of ppl_handle_list
add_birthdate(ppl_handle_list, rlocale) ==
    [i \in 1..Len(ppl_handle_list) |-> BirthdateEntry(ppl_handle_list[i], rlocale)]

InitSorting ==
    /\ icu = FALSE
    /\ COLLATE_LANG = en_GB
    /\ contractions_dict = CONTRACTIONS_DICT
    /\ call = [op |-> "none"]
    /\ rule = NoRule

SortEventTypes ==
    /\ call.op = "none"
    /\ \E rlocale \in {en_GB, hu_HU},
          event_handle_list \in SeqsUpTo(EventHandles, MaxEvents) :
          \E event_types \in SeqsUpTo(TypeLabels(rlocale), MaxTypes) :
              call' = [op |-> "sort_event_types", event_types |-> event_types,
                       event_handle_list |-> event_handle_list,
                       rlocale |-> rlocale,
                       ret |-> sort_event_types(event_db, event_types,
                                                event_handle_list, rlocale)]
    /\ UNCHANGED <<icu, COLLATE_LANG, contractions_dict, rule>>

SortPeople ==
    /\ call.op = "none"
    /\ \E handle_list \in SeqsUpTo(Handles, MaxHandles), rlocale \in Locales :
          call' = [op |-> "sort_people", handle_list |-> handle_list,
                   rlocale |-> rlocale, ret |-> sort_people(handle_list, rlocale)]
    /\ UNCHANGED <<icu, COLLATE_LANG, contractions_dict, rule>>

AddBirthdate ==
    /\ call.op = "none"
    /\ \E ppl_handle_list \in SeqsUpTo(Handles, MaxHandles), rlocale \in {en_GB, hu_HU} :
          call' = [op |-> "add_birthdate", ppl_handle_list |-> ppl_handle_list,
                   rlocale |-> rlocale,
                   ret |-> add_birthdate(ppl_handle_list, rlocale)]
    /\ UNCHANGED <<icu, COLLATE_LANG, contractions_dict, rule>>

NextSorting ==
    \/ SortEventTypes
    \/ SortPeople
    \/ AddBirthdate
    \/ Return

SpecSorting == InitSorting /\ [][NextSorting]_vars

----------------------------------------------------------------------------
(* The event list page: EventPages.display_pages collects the translated   *)
(* types of its events and eventlistpage writes the navigation strip and   *)
(* one table row per event, with a letter anchor in the first column.      *)

\* the translated event types display_pages passes on
EventTypesOf(event_handle_list, rlocale) ==
    [i \in 1..Len(event_handle_list) |->
        sgettext(rlocale, event_db[event_handle_list[i]].type)]

\* index_list of the page: get_first_letters on the type labels, with the
\* default rlocale
EventIndexList(event_types) ==
    get_first_letters(report_db, event_types, _ALPHAEVENT, glocale)

\* the letter of the rows of one event type
EventLetter(evt_type, index_list, rlocale) ==
    IF evt_type # <<>> /\ ~isspace(evt_type)
    THEN get_index_letter(sgettext(rlocale, capitalize(evt_type[1])),
                          index_list, rlocale).letter
    ELSE Nbsp

\* the loop over the events of one type; st is [prev_letter, rows]
RECURSIVE DataLoop(_, _, _, _, _, _, _, _)
DataLoop(evt_type, data_list, k, first, _event_displayed, st, index_list, rlocale) ==
    IF k > Len(data_list) THEN st
    ELSE LET event_handle == data_list[k][2]
             gid == event_db[event_handle].gid
         IN  IF gid \notin Range(_event_displayed) /\ event_db[event_handle].backlinks
             THEN LET letter == EventLetter(evt_type, index_list, rlocale)
                      anchor == first \/ primary_difference(letter, st.prev_letter, rlocale)
                  IN  DataLoop(evt_type, data_list, k + 1, first /\ ~anchor,
                               Append(_event_displayed, gid),
                               [prev_letter |-> IF anchor THEN letter ELSE st.prev_letter,
                                rows |-> Append(st.rows,
                                    [evt_type |-> evt_type, event_handle |-> event_handle,
                                     letter |-> letter, anchor |-> anchor])],
                               index_list, rlocale)
             ELSE DataLoop(evt_type, data_list, k + 1, first,
                           Append(_event_displayed, gid), st, index_list, rlocale)

\* the loop over the event types: first is set anew for every type
RECURSIVE TypeLoop(_, _, _, _, _)
TypeLoop(sorted_types, t, st, index_list, rlocale) ==
    IF t > Len(sorted_types) THEN st
    ELSE TypeLoop(sorted_types, t + 1,
                  DataLoop(sorted_types[t].event_type,
                           SortTuples(sorted_types[t].event_list), 1, TRUE, <<>>,
                           st, index_list, rlocale),
                  index_list, rlocale)

\* eventlistpage: the index list, the navigation strip and the rows
eventlistpage(event_types, event_handle_list, rlocale) ==
    LET index_list == EventIndexList(event_types)
    IN  [index_list |-> index_list,
         alpha_nav |-> alphabet_navigation(index_list, rlocale),
         rows |-> TypeLoop(sort_event_types(event_db, event_types,
                                            event_handle_list, rlocale),
                           1, [prev_letter |-> <<" ">>, rows |-> <<>>],
                           index_list, rlocale).rows]

\* the key lists of obj_dict[Event]: no handle twice
EventHandleLists ==
    {l \in SeqsUpTo(EventHandles, MaxEvents) :
        \A i, j \in 1..Len(l) : i # j => l[i] # l[j]}

InitEventList ==
    /\ icu \in BOOLEAN
    /\ COLLATE_LANG \in Locales
    /\ contractions_dict = CONTRACTIONS_DICT
    /\ call = [op |-> "none"]
    /\ rule = NoRule

\* display_pages of a report in the locale rlocale
EventListPage ==
    /\ call.op = "none"
    /\ \E event_handle_list \in EventHandleLists, rlocale \in Locales :
          LET event_types == EventTypesOf(event_handle_list, rlocale)
          IN  call' = [op |-> "eventlistpage", event_types |-> event_types,
                       event_handle_list |-> event_handle_list,
                       rlocale |-> rlocale,
                       ret |-> eventlistpage(event_types, event_handle_list, rlocale)]
    /\ UNCHANGED <<icu, COLLATE_LANG, contractions_dict, rule>>

NextEventList ==
    \/ EventListPage
    \/ Return

SpecEventList == InitEventList /\ [][NextEventList]_vars

----------------------------------------------------------------------------
(* The media pages and the thumbnail preview page.  A media handle is a    *)
(* one-element text; prev and next_ of a page are a handle, None or 0.     *)

\* the media objects of the model: description and Gramps ID
media_db ==
    (<<"m1">> :> [desc |-> <<"Z", "o", "l", "a">>, gramps_id |-> 1])
 @@ (<<"m2">> :> [desc |-> <<"a", "p", "p", "l", "e">>, gramps_id |-> 2])
 @@ (<<"m3">> :> [desc |-> <<"A", "p", "p", "l", "e">>, gramps_id |-> 3])
 @@ (<<"m4">> :> [desc |-> <<>>, gramps_id |-> 4])
 @@ (<<"m5">> :> [desc |-> <<"D", "o", "b">>, gramps_id |-> 5])
 @@ (<<"m6">> :> [desc |-> <<"a", "p", "p", "l", "e">>, gramps_id |-> 6])

\* the handles in the order the database returns them
MediaHandlePool == << <<"m4">>, <<"m1">>, <<"m6">>, <<"m3">>, <<"m2">>, <<"m5">> >>

\* the integer 0 where a handle is expected
Zero == <<"0">>

\* sort_by_desc_and_gid(a) < sort_by_desc_and_gid(b)
MediaKeyLess(a, b) ==
    LET da == [i \in 1..Len(media_db[a].desc) |-> Lower(media_db[a].desc[i])]
        db == [i \in 1..Len(media_db[b].desc) |-> Lower(media_db[b].desc[i])]
    IN  StrLess(da, db) \/ (da = db /\ media_db[a].gramps_id < media_db[b].gramps_id)

RECURSIVE InsertMedia(_, _)
InsertMedia(sorted, x) ==
    IF sorted = <<>> THEN <<x>>
    ELSE IF MediaKeyLess(x, Head(sorted)) THEN <<x>> \o sorted
    ELSE <<Head(sorted)>> \o InsertMedia(Tail(sorted), x)

\* sorted(handles, key=sort_by_desc_and_gid)
RECURSIVE SortMedia(_)
SortMedia(handles) ==
    IF handles = <<>> THEN <<>>
    ELSE InsertMedia(SortMedia(SubSeq(handles, 1, Len(handles) - 1)),
                     handles[Len(handles)])

\* the handles of media_list that are not keys of obj_dict[Media]
RECURSIVE Unreferenced(_, _)
Unreferenced(media_list, obj_dict) ==
    IF media_list = <<>> THEN <<>>
    ELSE IF Head(media_list) \in Range(obj_dict)
         THEN Unreferenced(Tail(media_list), obj_dict)
         ELSE <<Head(media_list)>> \o Unreferenced(Tail(media_list), obj_dict)

\* mutant: the last referenced page never links to the unused media
NextOfReferenced_no_unused(index, media_count, sorted_media_handles, unused_media_handles) ==
    IF index = media_count THEN None
    ELSE IF index < Len(sorted_media_handles) THEN sorted_media_handles[index + 1]
    ELSE None

\* next_ of the page of a referenced media; index counts from 1
NextOfReferenced(index, media_count, sorted_media_handles, unused_media_handles) ==
    IF index = media_count THEN None
    ELSE IF index < Len(sorted_media_handles) THEN sorted_media_handles[index + 1]
    ELSE IF Len(unused_media_handles) > 0 THEN unused_media_handles[1]
    ELSE None

\* the loop over the referenced media; k is the position in the list
RECURSIVE ReferencedLoop(_, _, _, _, _, _)
ReferencedLoop(k, prev, media_count, sorted_media_handles, unused_media_handles, pages) ==
    IF k > Len(sorted_media_handles) THEN pages
    ELSE ReferencedLoop(k + 1, sorted_media_handles[k], media_count,
             sorted_media_handles, unused_media_handles,
             Append(pages,
                 [handle |-> sorted_media_handles[k], prev |-> prev,
                  next_ |-> NextOfReferenced(k, media_count, sorted_media_handles,
                                             unused_media_handles),
                  page_number |-> k, total_pages |-> media_count]))

\* the loop over the unused media; idx counts from 1, index is the page
\* number
RECURSIVE UnusedLoop(_, _, _, _, _, _)
UnusedLoop(idx, index, prev, media_count, unused_media_handles, pages) ==
    IF idx > Len(unused_media_handles) THEN pages
    ELSE UnusedLoop(idx + 1, index + 1, unused_media_handles[idx], media_count,
             unused_media_handles,
             Append(pages,
                 [handle |-> unused_media_handles[idx], prev |-> prev,
                  next_ |-> IF index = media_count THEN None
                            ELSE unused_media_handles[idx + 1],
                  page_number |-> index, total_pages |-> media_count]))

\* MediaPages.display_pages: the calls of mediapage, in order.  media_list
\* is r_db.get_media_handles() and obj_dict the keys of obj_dict[Media]
display_pages(create_unused_media, media_list, obj_dict) ==
    LET media_count == IF create_unused_media THEN Len(media_list) ELSE Len(obj_dict)
        unused_media_handles ==
            IF create_unused_media THEN SortMedia(Unreferenced(media_list, obj_dict))
            ELSE <<>>
        sorted_media_handles == SortMedia(obj_dict)
        total_m == Len(sorted_media_handles)
        pages == ReferencedLoop(1, None, media_count, sorted_media_handles,
                                unused_media_handles, <<>>)
    IN  UnusedLoop(1, total_m + 1,
                   IF total_m > 0 THEN sorted_media_handles[total_m] ELSE Zero,
                   media_count, unused_media_handles, pages)

\* "if prev:" and "if next_:" of mediapage: a link is written
HasLink(x) == x # None /\ x # Zero

num_of_cols_thumbnail == 7

\* the cell of the image media_list[indexpos] (0-based), numbered index
ThumbnailCell(media_list, index, indexpos) ==
    [class |-> "thumbnail", index |-> index,
     ptitle |-> media_list[indexpos + 1][1],
     person_handle |-> media_list[indexpos + 1][2],
     photo |-> media_list[indexpos + 1][3]]

EmptyCell == [class |-> "emptyDays"]

\* mutant: the row loop lets cols reach num_of_cols
RECURSIVE GridCols_one_more(_, _, _, _)
GridCols_one_more(media_list, indexpos, cols, trow) ==
    IF cols <= num_of_cols_thumbnail /\ indexpos < Len(media_list)
    THEN GridCols_one_more(media_list, indexpos + 1, cols + 1,
                  Append(trow, ThumbnailCell(media_list, indexpos + 1, indexpos)))
    ELSE [trow |-> trow, indexpos |-> indexpos, cols |-> cols]

\* the inner while loop: index is always indexpos + 1
RECURSIVE GridCols(_, _, _, _)
GridCols(media_list, indexpos, cols, trow) ==
    IF cols < num_of_cols_thumbnail /\ indexpos < Len(media_list)
    THEN GridCols(media_list, indexpos + 1, cols + 1,
                  Append(trow, ThumbnailCell(media_list, indexpos + 1, indexpos)))
    ELSE [trow |-> trow, indexpos |-> indexpos, cols |-> cols]

\* the outer while loop; the result keeps cols of the last row
RECURSIVE GridRows(_, _, _, _, _)
GridRows(media_list, grid_row, num_of_rows, indexpos, tbody) ==
    LET r == GridCols(media_list, indexpos, 0, <<>>)
    IN  IF grid_row + 1 < num_of_rows
        THEN GridRows(media_list, grid_row + 1, num_of_rows, r.indexpos,
                      Append(tbody, r.trow))
        ELSE [tbody |-> Append(tbody, r.trow), cols |-> r.cols]

\* the grid of the thumbnail preview page, the last row finished off
ThumbnailGrid(media_list) ==
    LET num_of_rows == (Len(media_list) \div num_of_cols_thumbnail) + 1
        g == GridRows(media_list, 0, num_of_rows, 0, <<>>)
        last == Len(g.tbody)
    IN  IF g.cols < num_of_cols_thumbnail
        THEN [g.tbody EXCEPT ![last] =
                 @ \o [i \in 1..(num_of_cols_thumbnail - g.cols) |-> EmptyCell]]
        ELSE g.tbody

\* the rows of the reference table: thumbnail_link(ptitle, index) and the
\* title
ThumbnailReferences(media_list) ==
    [k \in 1..Len(media_list) |->
        [href |-> k, text |-> k, ptitle |-> media_list[k][1]]]

\* The database of the thumbnail preview page.  Media object i has the
\* handle <<"h", i>> and the Gramps ID "O%04d" % i, which compares as i
\* does; the descriptions repeat after eight objects, and object 5 is no
\* image
PreviewTitles ==
    << <<"b">>, <<"a">>, <<"B">>, <<"a">>,
       <<"Z">>, <<"A", "a">>, <<>>, <<"Aring">> >>

Handle(i) == <<"h", i>>

Photo(i) ==
    [desc |-> PreviewTitles[((i - 1) % Len(PreviewTitles)) + 1],
     gramps_id |-> i,
     mime |-> IF i = 5
              THEN <<"a", "p", "p", "l", "i", "c", "a", "t", "i", "o", "n", "/", "p", "d", "f">>
              ELSE <<"i", "m", "a", "g", "e", "/", "j", "p", "e", "g">>]

\* r_db.get_media_from_handle(handle), for a handle of the database
get_media_from_handle(handle) == Photo(handle[2])

\* sort_by_desc_and_gid(a) < sort_by_desc_and_gid(b) of the thumbnail
\* page: the description as it is, then the Gramps ID
PhotoKeyLess(a, b) ==
    \/ StrLess(get_media_from_handle(a).desc, get_media_from_handle(b).desc)
    \/ /\ get_media_from_handle(a).desc = get_media_from_handle(b).desc
       /\ get_media_from_handle(a).gramps_id < get_media_from_handle(b).gramps_id

RECURSIVE InsertPhotoKey(_, _)
InsertPhotoKey(sorted, x) ==
    IF sorted = <<>> THEN <<x>>
    ELSE IF PhotoKeyLess(x, Head(sorted)) THEN <<x>> \o sorted
    ELSE <<Head(sorted)>> \o InsertPhotoKey(Tail(sorted), x)

\* sorted(self.report.obj_dict[Media], key=sort_by_desc_and_gid): obj_dict
\* is the set of the keys, and no two media have the same Gramps ID
RECURSIVE SortedPhotoKeys(_)
SortedPhotoKeys(obj_dict) ==
    IF obj_dict = {} THEN <<>>
    ELSE LET x == CHOOSE h \in obj_dict : TRUE
         IN  InsertPhotoKey(SortedPhotoKeys(obj_dict \ {x}), x)

\* "add unused media": the handles of the database that are no key of
\* obj_dict, appended in the order of the database
RECURSIVE AppendUnused(_, _, _)
AppendUnused(photo_keys, media_list, obj_dict) ==
    IF media_list = <<>> THEN photo_keys
    ELSE AppendUnused(IF Head(media_list) \notin obj_dict
                      THEN Append(photo_keys, Head(media_list))
                      ELSE photo_keys,
                      Tail(media_list), obj_dict)

\* self.photo_keys; media_handles is r_db.get_media_handles()
PhotoKeys(create_unused_media, media_handles, obj_dict) ==
    IF create_unused_media
    THEN AppendUnused(SortedPhotoKeys(obj_dict), media_handles, obj_dict)
    ELSE SortedPhotoKeys(obj_dict)

\* mime_type.startswith("image")
IsImage(photo) == IsPrefix(<<"i", "m", "a", "g", "e">>, photo.mime)

\* the entry appended to media_list for the image person_handle
MediaEntry(person_handle) ==
    << get_media_from_handle(person_handle).desc, person_handle,
       get_media_from_handle(person_handle) >>

\* the loop over photo_keys: an entry for every media that is an image
RECURSIVE ImageEntries(_, _)
ImageEntries(photo_keys, media_handles) ==
    IF photo_keys = <<>> THEN <<>>
    ELSE IF Head(photo_keys) \in Range(media_handles)
            /\ IsImage(get_media_from_handle(Head(photo_keys)))
         THEN <<MediaEntry(Head(photo_keys))>>
                  \o ImageEntries(Tail(photo_keys), media_handles)
         ELSE ImageEntries(Tail(photo_keys), media_handles)

RECURSIVE InsertEntry(_, _, _)
InsertEntry(rlocale, sorted, x) ==
    IF sorted = <<>> THEN <<x>>
    ELSE IF KeyLess(sort_key(rlocale, x[1]), sort_key(rlocale, Head(sorted)[1]))
         THEN <<x>> \o sorted
         ELSE <<Head(sorted)>> \o InsertEntry(rlocale, Tail(sorted), x)

\* media_list.sort(key=lambda x: self.rlocale.sort_key(x[0])): stable,
\* ascending
RECURSIVE SortEntries(_, _)
SortEntries(rlocale, media_list) ==
    IF media_list = <<>> THEN <<>>
    ELSE InsertEntry(rlocale,
             SortEntries(rlocale, SubSeq(media_list, 1, Len(media_list) - 1)),
             media_list[Len(media_list)])

\* the handles copy_thumbnail is called with, in order
ThumbnailsCopied(create_thumbs_only, entries) ==
    IF create_thumbs_only THEN [k \in 1..Len(entries) |-> entries[k][2]] ELSE <<>>

\* ThumbnailPreviewPage.__init__: photo_keys, the thumbnails copied,
\* media_list as the grid loop reads it, the grid and the reference table
thumbnail_preview_page(create_thumbs_only, create_unused_media, media_handles, obj_dict, rlocale) ==
    LET photo_keys == PhotoKeys(create_unused_media, media_handles, obj_dict)
        entries == ImageEntries(photo_keys, media_handles)
    IN  [photo_keys |-> photo_keys,
         copied |-> ThumbnailsCopied(create_thumbs_only, entries),
         media_list |-> SortEntries(rlocale, entries)]

InitMedia ==
    /\ icu = FALSE
    /\ COLLATE_LANG = en_GB
    /\ contractions_dict = CONTRACTIONS_DICT
    /\ call = [op |-> "none"]
    /\ rule = NoRule

\* the sequences without repetition over the elements of s, of length <= n
Arrangements(s, n) ==
    {l \in SeqsUpTo(Range(s), n) : \A i, j \in 1..Len(l) : i # j => l[i] # l[j]}

\* display_pages on a database with some of the media, of which some are
\* referenced by the report
DisplayPages ==
    /\ call.op = "none"
    /\ \E create_unused_media \in BOOLEAN,
          present \in SUBSET (1..Len(MediaHandlePool)) :
          /\ Cardinality(present) <= MaxDbMedia
          /\ LET media_list == SelectSeq(MediaHandlePool,
                                   LAMBDA h : IndexOf(MediaHandlePool, h) \in present)
             IN  \E obj_dict \in Arrangements(media_list, MaxReferenced) :
                    call' = [op |-> "display_pages",
                             create_unused_media |-> create_unused_media,
                             media_list |-> media_list, obj_dict |-> obj_dict,
                             ret |-> display_pages(create_unused_media,
                                                   media_list, obj_dict)]
    /\ UNCHANGED <<icu, COLLATE_LANG, contractions_dict, rule>>

\* the media handles of a database of n objects, as get_media_handles
\* returns them: in ascending or in descending order of the handles
MediaHandles(n) ==
    {[k \in 1..n |-> Handle(k)], [k \in 1..n |-> Handle(n + 1 - k)]}

\* the thumbnail preview page of a report on a database of n media, of
\* which the report refers to some
ThumbnailPreviewPage ==
    /\ call.op = "none"
    /\ \E n \in 0..MaxThumbs, create_thumbs_only \in BOOLEAN,
          create_unused_media \in BOOLEAN, rlocale \in Locales :
          \E media_handles \in MediaHandles(n),
             obj_dict \in SUBSET {Handle(k) : k \in 1..(IF n < MaxDbMedia THEN n ELSE MaxDbMedia)} :
             /\ Cardinality(obj_dict) <= MaxReferenced
             /\ \E page \in {thumbnail_preview_page(create_thumbs_only,
                                  create_unused_media, media_handles, obj_dict,
                                  rlocale)} :
                   call' = [op |-> "ThumbnailPreviewPage",
                            create_thumbs_only |-> create_thumbs_only,
                            create_unused_media |-> create_unused_media,
                            media_handles |-> media_handles,
                            obj_dict |-> obj_dict, rlocale |-> rlocale,
                            photo_keys |-> page.photo_keys,
                            copied |-> page.copied,
                            media_list |-> page.media_list,
                            ret |-> [grid |-> ThumbnailGrid(page.media_list),
                                     references |-> ThumbnailReferences(page.media_list)]]
    /\ UNCHANGED <<icu, COLLATE_LANG, contractions_dict, rule>>

NextMedia ==
    \/ DisplayPages
    \/ ThumbnailPreviewPage
    \/ Return

SpecMedia == InitMedia /\ [][NextMedia]_vars

----------------------------------------------------------------------------
(* Properties *)

IsGetFirstLetters == call.op = "get_first_letters"

\* the candidate letters of the recorded get_first_letters call, sorted
Candidates ==
    Sort(call.rlocale,
         ExtractLetters(report_db, call.handle_list, call.key, call.rlocale))

\* the letter of a surname group of the items is looked up in the list
\* built from the same items
IsDerivedLookup == call.op = "get_index_letter" /\ call.derived

\* the positions of index_list without primary difference from letter
Matching(letter, index_list, rlocale) ==
    {i \in 1..Len(index_list) : ~primary_difference(letter, index_list[i], rlocale)}

\* C1: every two adjacent bucket letters of the list returned by
\* get_first_letters have a primary difference.
C1_AdjacentDistinct ==
    IsGetFirstLetters =>
        \A i \in 1..(Len(call.ret) - 1) :
            primary_difference(call.ret[i], call.ret[i + 1], call.rlocale)

\* a call that dropped a letter and returned at least two buckets
C1_Witness ==
    /\ IsGetFirstLetters
    /\ Len(call.ret) >= 2
    /\ Len(call.ret) < Len(call.handle_list)

\* C2: get_index_letter on the first letter extracted from an item, with
\* the bucket list get_first_letters built from the same items, finds a
\* bucket and returns a member of the bucket list.
C2_LookupFindsBucket ==
    IsDerivedLookup =>
        /\ call.ret.found
        /\ call.ret.letter \in Range(call.index_list)

\* C3: exactly one bucket of the list has no primary difference from the
\* first letter of an item.
C3_ExactlyOneBucket ==
    IsDerivedLookup =>
        Cardinality(Matching(call.letter, call.index_list, call.rlocale)) = 1

\* C4: any two bucket letters of the returned list, adjacent or not, have
\* a primary difference.
C4_PairwiseDistinct ==
    IsGetFirstLetters =>
        \A i, j \in 1..Len(call.ret) :
            i < j => primary_difference(call.ret[i], call.ret[j], call.rlocale)

\* C5: the returned list is ascending in the sort key of the locale and is
\* a subsequence of the sorted candidate letters.
C5_AscendingSubsequence ==
    IsGetFirstLetters =>
        /\ \A i \in 1..(Len(call.ret) - 1) :
              ~KeyLess(sort_key(call.rlocale, call.ret[i + 1]),
                       sort_key(call.rlocale, call.ret[i]))
        /\ IsSubsequence(call.ret, Candidates)

\* a call whose handles were not in collation order and lost a letter
C5_Witness ==
    /\ IsGetFirstLetters
    /\ Len(call.ret) >= 2
    /\ Len(call.ret) < Len(call.handle_list)
    /\ ExtractLetters(report_db, call.handle_list, call.key, call.rlocale) # Candidates

\* the single forward pass: keep the first element, then keep an element
\* only if it has a primary difference from the most recently kept one
RECURSIVE ForwardPass(_, _, _, _)
ForwardPass(lst, i, kept, rlocale) ==
    IF i > Len(lst) THEN kept
    ELSE IF kept = <<>> \/ primary_difference(kept[Len(kept)], lst[i], rlocale)
         THEN ForwardPass(lst, i + 1, Append(kept, lst[i]), rlocale)
         ELSE ForwardPass(lst, i + 1, kept, rlocale)

\* C6: the in-place dedup returns exactly what the single forward pass
\* over the sorted candidates produces.
C6_InPlaceIsForwardPass ==
    IsGetFirstLetters =>
        call.ret = ForwardPass(Candidates, 1, <<>>, call.rlocale)

\* a call on candidates with a repeated letter, of which letters remain
C6_Witness ==
    /\ IsGetFirstLetters
    /\ \E i \in 1..(Len(Candidates) - 1) : Candidates[i] = Candidates[i + 1]
    /\ Len(call.ret) >= 2

\* the contraction list in force, empty when the language has none
ActiveContractions ==
    LET c == Contractions(contractions_dict, COLLATE_LANG)
    IN  IF c.is_none THEN <<>> ELSE c.value

\* the entries one of whose variants is literally a prefix of text
PrefixEntries(text) ==
    {i \in 1..Len(ActiveContractions) :
        \E k \in 1..Len(ActiveContractions[i].variants) :
            IsPrefix(ActiveContractions[i].variants[k], text)}

StartsWithDzs(text) ==
    \/ IsPrefix(<<"d", "z", "s">>, text)
    \/ IsPrefix(<<"D", "z", "s">>, text)
    \/ IsPrefix(<<"D", "Z", "S">>, text)

IsFirstLetterOfText ==
    call.op = "first_letter" /\ call.string # None /\ Len(call.string) >= 1

\* C7: first_letter returns the index letter of the first entry, in table
\* order, with a variant that is a prefix of the normalized text; with the
\* Hungarian table a text beginning with dzs, Dzs or DZS yields DZS.
C7_ContractionPrecedence ==
    IsFirstLetterOfText =>
        LET text == normalize(call.string)
            hits == PrefixEntries(text)
        IN  /\ hits # {} =>
                  call.ret = ActiveContractions[
                      CHOOSE i \in hits : \A j \in hits : i <= j].letter
            /\ (Split0(COLLATE_LANG) = <<"hu">> /\ StartsWithDzs(text)) =>
                  call.ret = <<"D", "Z", "S">>

\* "dzsek" in the Hungarian locale, where the entries of dzs and dz match
C7_Witness ==
    /\ IsFirstLetterOfText
    /\ COLLATE_LANG = hu_HU
    /\ call.string = <<"d", "z", "s", "e", "k">>
    /\ Cardinality(PrefixEntries(normalize(call.string))) = 2
    /\ call.ret = <<"D", "Z", "S">>

\* C8: in every list of CONTRACTIONS_DICT no variant of an entry is a
\* proper prefix of a variant of a later entry.
C8_LongerBeforeShorter ==
    \A lang \in DOMAIN contractions_dict :
        \A i, j \in 1..Len(contractions_dict[lang]) :
            i < j =>
                \A v \in Range(contractions_dict[lang][i].variants),
                   w \in Range(contractions_dict[lang][j].variants) :
                    ~IsProperPrefix(v, w)

\* a list holds an entry that extends a later one, and first_letter has
\* returned the longer letter for a text both match
C8_Witness ==
    /\ \E lang \in DOMAIN contractions_dict :
          \E i, j \in 1..Len(contractions_dict[lang]) :
              /\ i < j
              /\ \E v \in Range(contractions_dict[lang][i].variants),
                    w \in Range(contractions_dict[lang][j].variants) :
                     IsProperPrefix(w, v)
    /\ call.op = "first_letter"
    /\ call.string = <<"D", "Z", "S">>
    /\ call.ret = <<"D", "Z", "S">>

IsFallbackCall == call.op = "primary_difference" /\ ~icu

\* C9: the fallback primary_difference is symmetric.
C9_FallbackSymmetric ==
    IsFallbackCall =>
        call.ret = primary_difference(call.new_key, call.prev_key, call.rlocale)

\* a fallback comparison of two different keys with a primary difference
C9_Witness ==
    /\ IsFallbackCall
    /\ call.prev_key = <<"D">>
    /\ call.new_key = <<"D", "Z">>
    /\ call.ret

\* C10: the fallback primary_difference returns false exactly when
\* sort_key(A+"e") < sort_key(B+"f") and sort_key(B+"e") < sort_key(A+"f").
C10_FallbackInterleaving ==
    IsFallbackCall =>
        (call.ret = FALSE
            <=> /\ KeyLess(sort_key(call.rlocale, call.prev_key \o <<"e">>),
                           sort_key(call.rlocale, call.new_key \o <<"f">>))
                /\ KeyLess(sort_key(call.rlocale, call.new_key \o <<"e">>),
                           sort_key(call.rlocale, call.prev_key \o <<"f">>)))

\* a fallback comparison of two different keys without primary difference
C10_Witness ==
    /\ IsFallbackCall
    /\ call.prev_key = <<"A">>
    /\ call.new_key = <<"Aring">>
    /\ call.ret = FALSE

\* C11: get_index_letter returns the first element of index_list, in list
\* order, without primary difference from the letter; when there is none,
\* also for the empty list, it returns the letter itself (and only logs).
C11_FirstMatchOrInput ==
    call.op = "get_index_letter" =>
        LET hits == Matching(call.letter, call.index_list, call.rlocale)
        IN  IF hits = {}
            THEN call.ret = [found |-> FALSE, letter |-> call.letter]
            ELSE /\ call.ret.found
                 /\ \E i \in hits :
                       /\ \A j \in hits : i <= j
                       /\ call.ret.letter = call.index_list[i]

\* a list with two different elements that both match: the first is returned
C11_Witness ==
    /\ call.op = "get_index_letter"
    /\ Cardinality(Matching(call.letter, call.index_list, call.rlocale)) = 2
    /\ call.index_list[1] # call.index_list[2]
    /\ call.ret.letter = call.index_list[1]
    /\ call.ret.letter # call.letter

\* the index letter of text under the contraction list of the locale lang
LetterUnder(lang, text) ==
    LET c == Contractions(contractions_dict, lang)
        lst == IF c.is_none THEN <<>> ELSE c.value
        hits == {i \in 1..Len(lst) :
                    \E k \in 1..Len(lst[i].variants) :
                        IsPrefix(lst[i].variants[k], text)}
    IN  IF hits = {} THEN Upper(text[1])
        ELSE lst[CHOOSE i \in hits : \A j \in hits : i <= j].letter

\* C12: first_letter called with a locale uses the contraction list of
\* that locale, and get_first_letters extracts the letters under the
\* locale it was called with.
C12_LocaleOfTheCall ==
    /\ IsFirstLetterOfText =>
          call.ret = LetterUnder(call.rlocale, normalize(call.string))
    /\ IsGetFirstLetters =>
          \A i \in 1..Len(call.handle_list) :
              LET name == KeyName(report_db, call.handle_list[i], call.key, call.rlocale)
              IN  Len(name) >= 1 =>
                      \E k \in 1..Len(call.ret) :
                          ~primary_difference(
                              LetterUnder(call.rlocale, normalize(name)),
                              call.ret[k], call.rlocale)

IsNavigation == call.op = "alphabet_navigation"

\* the links of the recorded fragment, read row by row
RECURSIVE Flatten(_)
Flatten(rows) == IF rows = <<>> THEN <<>> ELSE Head(rows) \o Flatten(Tail(rows))

\* the letter a link stands for
LinkLetter(link) == IF link = Nbsp THEN <<" ">> ELSE link

\* C13: every row of the navigation fragment holds at most 26 letters.
C13_RowsOfAtMost26 ==
    IsNavigation =>
        \A r \in 1..Len(call.ret.rows) : Len(call.ret.rows[r]) <= 26

\* C14: the fragment has exactly one link per distinct letter of
\* index_list, however often the letter occurs, and the links read row by
\* row are ascending in the sort-key order of rlocale.
C14_OneLinkPerLetterAscending ==
    IsNavigation =>
        LET links == Flatten(call.ret.rows)
        IN  /\ \A l \in Range(call.index_list) :
                  Cardinality({i \in 1..Len(links) : LinkLetter(links[i]) = l}) = 1
            /\ \A i \in 1..Len(links) : LinkLetter(links[i]) \in Range(call.index_list)
            /\ \A i \in 1..(Len(links) - 1) :
                  KeyLess(sort_key(call.rlocale, LinkLetter(links[i])),
                          sort_key(call.rlocale, LinkLetter(links[i + 1])))

\* an index of more than 26 distinct letters, the blank among them, some
\* of them repeated
C14_Witness ==
    /\ IsNavigation
    /\ Len(call.index_list) > Cardinality(Range(call.index_list))
    /\ Cardinality(Range(call.index_list)) > 26
    /\ Len(Flatten(call.ret.rows)) = Cardinality(Range(call.index_list))
    /\ <<" ">> \in Range(call.index_list)

\* C15: get_first_letters on the empty handle list returns the empty
\* list, and alphabet_navigation on the empty index list returns None
\* without building a row.
C15_EmptyInputs ==
    /\ (IsGetFirstLetters /\ call.handle_list = <<>>) => call.ret = <<>>
    /\ (IsNavigation /\ call.index_list = <<>>) =>
           (call.ret.is_none /\ call.ret.rows = <<>>)

\* alphabet_navigation has returned None for the empty index
C15_Witness ==
    /\ IsNavigation
    /\ call.index_list = <<>>
    /\ call.ret.is_none

\* C16: first_letter returns the blank for None and for the empty string,
\* and a non-empty letter for every non-empty string.
C16_BlankOrNonEmpty ==
    call.op = "first_letter" =>
        IF call.string = None \/ call.string = <<>>
        THEN call.ret = <<" ">>
        ELSE Len(call.ret) >= 1 /\ \A i \in 1..Len(call.ret) : call.ret[i] # ""

\* first_letter was called with None
C16_Witness ==
    /\ call.op = "first_letter"
    /\ call.string = None
    /\ call.ret = <<" ">>

\* C17: first_letter looks up the contraction list under the full locale
\* tag first, and under the base language tag only when the full tag has
\* no entry; with no list, or no entry of the list matching, it returns
\* the first character of the normalized text, upper-cased.
C17_FullTagThenBaseTag ==
    IsFirstLetterOfText =>
        LET d == contractions_dict
            base == Split0(COLLATE_LANG)
            lst == IF COLLATE_LANG \in DOMAIN d THEN d[COLLATE_LANG]
                   ELSE IF base \in DOMAIN d THEN d[base]
                   ELSE <<>>
            text == normalize(call.string)
            hits == {i \in 1..Len(lst) :
                        \E k \in 1..Len(lst[i].variants) :
                            IsPrefix(lst[i].variants[k], text)}
        IN  /\ call.lookups = IF COLLATE_LANG \in DOMAIN d THEN <<COLLATE_LANG>>
                              ELSE <<COLLATE_LANG, base>>
            /\ IF hits = {} THEN call.ret = Upper(text[1])
               ELSE \E i \in hits : call.ret = lst[i].letter

\* the full tag has an entry: the only lookup is that of the full tag, and
\* its list gives the letter
C17_Witness ==
    /\ IsFirstLetterOfText
    /\ COLLATE_LANG \in DOMAIN contractions_dict
    /\ call.lookups = <<COLLATE_LANG>>
    /\ call.ret # Upper(normalize(call.string)[1])

\* the Danish scenario: the locale of the process and the locale of the
\* call are Danish and the handle list is Aaberg, Apple and A-ring-sen, in
\* any order
DanishScenario ==
    /\ IsGetFirstLetters
    /\ call.key = _KEYPERSON
    /\ Lang(COLLATE_LANG) = "da"
    /\ Lang(call.rlocale) = "da"
    /\ Len(call.handle_list) = 3
    /\ Range(call.handle_list) = {1, 2, 3}

\* the letters of Aaberg, Apple and A-ring-sen are A-ring, A and A-ring
DanishLetters ==
    ExtractLetters(report_db, call.handle_list, call.key, call.rlocale)
        = [i \in 1..3 |-> IF call.handle_list[i] = 2 THEN <<"A">> ELSE <<"Aring">>]

\* the lookup of the letter of Aaberg returns a member of the bucket list
DanishLookup ==
    LET r == get_index_letter(first_letter(dbase[1], glocale), call.ret, call.rlocale)
    IN  r.found /\ r.letter \in Range(call.ret)

\* C18: in the Danish scenario the extracted letters are A-ring, A and
\* A-ring; the bucket list is [A, A-ring] when A and A-ring have a primary
\* difference and [A-ring] when they have none; the lookup of the letter
\* of Aaberg returns a member of the bucket list.  Under Danish collation
\* A and A-ring do have a primary difference.
C18_DanishScenario ==
    DanishScenario =>
        /\ DanishLetters
        /\ primary_difference(<<"A">>, <<"Aring">>, call.rlocale)
        /\ call.ret = IF primary_difference(<<"A">>, <<"Aring">>, call.rlocale)
                      THEN << <<"A">>, <<"Aring">> >>
                      ELSE << <<"Aring">> >>
        /\ DanishLookup

\* the scenario, with the handles in an order that is not the order of
\* the buckets
C18_Witness ==
    /\ DanishScenario
    /\ call.handle_list = <<3, 1, 2>>
    /\ call.ret = << <<"A">>, <<"Aring">> >>

\* C19: no operation of the indexing core changes shared state or its
\* inputs: CONTRACTIONS_DICT, the handle list passed to get_first_letters
\* and the index list passed to get_index_letter and to
\* alphabet_navigation are after the call what they were before it.
C19_InputsUnchanged ==
    /\ contractions_dict = CONTRACTIONS_DICT
    /\ IsGetFirstLetters => call.handle_list_after = call.handle_list
    /\ call.op = "get_index_letter" => call.index_list_after = call.index_list
    /\ IsNavigation => call.index_list_after = call.index_list

\* alphabet_navigation had to reorder and to merge the letters of its index
C19_Witness ==
    /\ IsNavigation
    /\ Len(call.index_list) >= 3
    /\ Len(Flatten(call.ret.rows)) < Len(call.index_list)
    /\ LinkLetter(Flatten(call.ret.rows)[1]) # call.index_list[1]
    /\ call.index_list_after = call.index_list

\* C20: after prepare, apply returns TRUE exactly when the number of media
\* references of the object is less than the count of the rule if the
\* comparison is 'less than', greater if it is 'greater than', and equal
\* to it for every other comparison; apply leaves count_type and
\* userSelectedCount as prepare set them.
C20_ApplyComparesCount ==
    call.op = "apply" =>
        LET n == Len(call.media_list)
            count == int(call.self.list[1])
            comparison == call.self.list[2]
        IN  /\ call.ret = (IF comparison = "less than" THEN n < count
                           ELSE IF comparison = "greater than" THEN n > count
                           ELSE n = count)
            /\ rule.count_type = call.self.count_type
            /\ rule.userSelectedCount = call.self.userSelectedCount

\* a 'less than' rule whose count was typed with a blank before it,
\* applied to an object with as many media references as the count
C20_Witness ==
    /\ call.op = "apply"
    /\ call.self.list[2] = "less than"
    /\ Head(call.self.list[1]) = " "
    /\ Len(call.media_list) = call.self.userSelectedCount
    /\ Len(call.media_list) > 0
    /\ call.ret = FALSE

\* the characters of all variants and index letters of the table d
TableChars(d) ==
    UNION { UNION { Range(d[lang][i].letter)
                    \cup UNION { Range(d[lang][i].variants[k]) :
                                    k \in 1..Len(d[lang][i].variants) } :
                    i \in 1..Len(d[lang]) } :
            lang \in DOMAIN d }

\* C21: the marker characters "e" and "f" of the fallback
\* primary_difference occur in no variant and in no index letter of
\* CONTRACTIONS_DICT, in either case.
C21_MarkersNotInTable ==
    TableChars(contractions_dict) \cap {"e", "f", "E", "F"} = {}

\* the fallback has compared two index letters of the table, marker
\* suffixes appended
C21_Witness ==
    /\ IsFallbackCall
    /\ call.prev_key = <<"D", "Z">>
    /\ call.new_key = <<"D", "Z", "S">>
    /\ \E i \in 1..Len(contractions_dict[<<"hu">>]) :
          contractions_dict[<<"hu">>][i].letter = call.prev_key

\* the lowercase, the titlecase and the uppercase form of a contraction
CaseForms(variant) ==
    LET lower == [i \in 1..Len(variant) |-> Lower(variant[i])]
    IN  { lower,
          [i \in 1..Len(variant) |-> IF i = 1 THEN UpperChar(lower[i]) ELSE lower[i]],
          [i \in 1..Len(variant) |-> UpperChar(lower[i])] }

\* C22: every entry of CONTRACTIONS_DICT lists the lowercase, the
\* titlecase and the uppercase form of its contraction, and a text that is
\* one of these forms gets the index letter of the entry.
C22_AllCaseForms ==
    \A lang \in DOMAIN contractions_dict :
        \A i \in 1..Len(contractions_dict[lang]) :
            LET entry == contractions_dict[lang][i]
            IN  \A form \in CaseForms(entry.variants[1]) :
                    /\ form \in Range(entry.variants)
                    /\ ContractionLoop(contractions_dict[lang], 1, normalize(form))
                           = entry.letter

IsSortEventTypes == call.op = "sort_event_types"

\* the positions of ret whose list contains the event handle h
ListsWith(ret, h) ==
    {i \in 1..Len(ret) : \E k \in 1..Len(ret[i].event_list) : ret[i].event_list[k][2] = h}

\* C23: sort_event_types returns one pair per distinct element of
\* event_types, ordered by the str of the type; a handle whose translated
\* type is in event_types is in the list of that type and in no other, a
\* handle of another type is in no list, and every list is ascending by
\* (sort value, handle).
C23_SortEventTypes ==
    IsSortEventTypes =>
        LET ret == call.ret
        IN  /\ Len(ret) = Cardinality(Range(call.event_types))
            /\ {ret[i].event_type : i \in 1..Len(ret)} = Range(call.event_types)
            /\ \A i \in 1..(Len(ret) - 1) :
                  StrLess(ret[i].event_type, ret[i + 1].event_type)
            /\ \A p \in 1..Len(call.event_handle_list) :
                  LET h == call.event_handle_list[p]
                      t == sgettext(call.rlocale, event_db[h].type)
                  IN  ListsWith(ret, h) = {i \in 1..Len(ret) : ret[i].event_type = t}
            /\ \A i \in 1..Len(ret) :
                  /\ \A k \in 1..Len(ret[i].event_list) :
                        LET e == ret[i].event_list[k]
                        IN  /\ e[2] \in Range(call.event_handle_list)
                            /\ e[1] = event_db[e[2]].sort_value
                  /\ \A k \in 1..(Len(ret[i].event_list) - 1) :
                        ~TupleLess(ret[i].event_list[k + 1], ret[i].event_list[k])

\* two types, passed out of order; the two Death events had to be
\* reordered and the Adopted event was left out
C23_Witness ==
    /\ IsSortEventTypes
    /\ call.event_types = <<Degree, Death>>
    /\ call.event_handle_list = <<1, 3, 4>>
    /\ call.ret = << [event_type |-> Death, event_list |-> << <<1, 3>>, <<2, 1>> >>],
                     [event_type |-> Degree, event_list |-> <<>>] >>

IsSortPeople == call.op = "sort_people"

\* the group of a person as the claim names it: the group-as name, else
\* the mapped primary surname, with absent and blank surnames under ''
GroupOf(h) ==
    LET n == person_db[h]
        s == IF n.group_as # <<>> THEN n.group_as ELSE get_name_group_mapping(n.surname)
    IN  IF s = None THEN <<>>
        ELSE IF \A i \in 1..Len(s) : s[i] = " " THEN <<>>
        ELSE s

\* C24: sort_people partitions the handle list by surname: every handle is
\* in exactly one group, that of its group-as name or mapped primary
\* surname, absent and whitespace-only surnames being grouped under '';
\* the groups ascend by the sort key of the surname and the handles of a
\* group ascend by the sort key of their sort name.
C24_SortPeople ==
    IsSortPeople =>
        LET ret == call.ret
        IN  /\ \A h \in Range(call.handle_list) :
                  LET groups == {i \in 1..Len(ret) : h \in Range(ret[i].entries)}
                  IN  /\ Cardinality(groups) = 1
                      /\ \A i \in groups : ret[i].name = GroupOf(h)
            /\ \A i \in 1..Len(ret) :
                  /\ ret[i].entries # <<>>
                  /\ Range(ret[i].entries) \subseteq Range(call.handle_list)
                  /\ \A k \in 1..(Len(ret[i].entries) - 1) :
                        ~KeyLess(sort_key(call.rlocale, dbase[ret[i].entries[k + 1]]),
                                 sort_key(call.rlocale, dbase[ret[i].entries[k]]))
            /\ \A i \in 1..(Len(ret) - 1) :
                  KeyLess(sort_key(call.rlocale, ret[i].name),
                          sort_key(call.rlocale, ret[i + 1].name))

\* a person without surname and one with a blank surname share the group
\* '', in sort-name order, before the group of a person filed by group-as
C24_Witness ==
    /\ IsSortPeople
    /\ call.handle_list = <<4, 6, 7>>
    /\ call.ret = << [name |-> <<>>, entries |-> <<7, 6>>],
                     [name |-> <<"A", "p", "p", "l", "e">>, entries |-> <<4>>] >>

\* C26: add_birthdate returns one (birth sort value, birth date text,
\* death date text, handle) entry per handle of ppl_handle_list, sorted in
\* birth order: ascending by birth sort value.
C26_BirthOrder ==
    call.op = "add_birthdate" =>
        /\ Len(call.ret) = Len(call.ppl_handle_list)
        /\ \A h \in Range(call.ppl_handle_list) :
              Cardinality({i \in 1..Len(call.ret) : call.ret[i][4] = h})
                  = Cardinality({i \in 1..Len(call.ppl_handle_list) :
                                    call.ppl_handle_list[i] = h})
        /\ \A i \in 1..Len(call.ret) :
              call.ret[i] = BirthdateEntry(call.ret[i][4], call.rlocale)
        /\ \A i \in 1..(Len(call.ret) - 1) : call.ret[i][1] <= call.ret[i + 1][1]

IsEventListPage == call.op = "eventlistpage"

\* the rows of the event list page that carry a letter anchor
AnchorRows == {i \in 1..Len(call.ret.rows) : call.ret.rows[i].anchor}

\* C27: on the event list page the letter anchor written for an event
\* type with a non-blank label is a member of index_list, the list the
\* navigation strip was built from.
C27_AnchorIsBucket ==
    IsEventListPage =>
        \A i \in AnchorRows :
            LET row == call.ret.rows[i]
            IN  (row.evt_type # <<>> /\ ~isspace(row.evt_type)) =>
                    row.letter \in Range(call.ret.index_list)

\* C28: on the event list page each letter is written as a BeginLetter
\* anchor at most once: a row gets an anchor only when its letter has a
\* primary difference from the letter of the anchor written before it,
\* also across event types.
C28_AnchorOncePerLetter ==
    IsEventListPage =>
        /\ \A i, j \in AnchorRows :
              i # j => call.ret.rows[i].letter # call.ret.rows[j].letter
        /\ \A i, j \in AnchorRows :
              (i < j /\ \A k \in AnchorRows : ~(i < k /\ k < j)) =>
                  primary_difference(call.ret.rows[j].letter,
                                     call.ret.rows[i].letter, call.rlocale)

IsDisplayPages == call.op = "display_pages"

\* C25: display_pages generates the media pages as one chain, the
\* referenced media in sorted order followed by the unused media in sorted
\* order: the page numbers run 1..media_count, the first page has no
\* previous link, the last page no next link, and of two consecutive
\* pages the earlier one's next is the later one's handle and the later
\* one's previous is the earlier one's handle.
C25_MediaChain ==
    IsDisplayPages =>
        LET pages == call.ret
            n == Len(pages)
            referenced == Range(call.obj_dict)
            unused == IF call.create_unused_media
                      THEN Range(call.media_list) \ referenced ELSE {}
        IN  /\ n = Cardinality(referenced \cup unused)
            /\ {pages[i].handle : i \in 1..n} = referenced \cup unused
            /\ \A i \in 1..n :
                  /\ pages[i].page_number = i
                  /\ pages[i].total_pages = n
                  /\ pages[i].handle \in referenced <=> i <= Cardinality(referenced)
            /\ \A i \in 1..(n - 1) :
                  /\ pages[i].next_ = pages[i + 1].handle
                  /\ pages[i + 1].prev = pages[i].handle
                  /\ (pages[i].handle \in referenced <=> pages[i + 1].handle \in referenced)
                        => MediaKeyLess(pages[i].handle, pages[i + 1].handle)
            /\ n > 0 => (~HasLink(pages[1].prev) /\ ~HasLink(pages[n].next_))

\* two referenced media followed by two unused ones
C25_Witness ==
    /\ IsDisplayPages
    /\ call.create_unused_media
    /\ Len(call.obj_dict) = 2
    /\ Len(call.ret) = 4
    /\ call.ret[2].next_ = call.ret[3].handle
    /\ call.ret[3].handle \notin Range(call.obj_dict)
    /\ call.ret[2].handle # call.obj_dict[2]

IsThumbnailPage == call.op = "ThumbnailPreviewPage"

\* C30: on the thumbnail preview page every image of media_list is in
\* exactly one cell of the grid, in list order and numbered 1..n; no row
\* holds more than 7 thumbnails; the last row is filled up with empty cells
\* to exactly 7 cells; and the k-th reference link targets the anchor k,
\* which is the anchor of the same media as the k-th reference row.
C30_ThumbnailGrid ==
    IsThumbnailPage =>
        LET media_list == call.media_list
            n == Len(media_list)
            grid == call.ret.grid
            cells == SelectSeq(Flatten(grid), LAMBDA c : c.class = "thumbnail")
            last == grid[Len(grid)]
        IN  /\ Len(cells) = n
            /\ \A k \in 1..n :
                  /\ cells[k].index = k
                  /\ cells[k].ptitle = media_list[k][1]
                  /\ cells[k].person_handle = media_list[k][2]
                  /\ cells[k].photo = media_list[k][3]
            /\ \A r \in 1..Len(grid) :
                  Len(SelectSeq(grid[r], LAMBDA c : c.class = "thumbnail"))
                      <= num_of_cols_thumbnail
            /\ Len(grid) >= 1
            /\ Len(last) = num_of_cols_thumbnail
            /\ \A i, j \in 1..Len(last) :
                  (i < j /\ last[i].class = "emptyDays") => last[j].class = "emptyDays"
            /\ Len(call.ret.references) = n
            /\ \A k \in 1..n :
                  /\ call.ret.references[k].href = cells[k].index
                  /\ call.ret.references[k].ptitle = cells[k].ptitle

\* nine images, which the sort by title has put in another order than
\* photo_keys: a full row and a row of two thumbnails and five empty cells
C30_Witness ==
    /\ IsThumbnailPage
    /\ Len(call.media_list) = 9
    /\ call.media_list[1][2] # call.photo_keys[1]
    /\ Len(call.ret.grid) = 2
    /\ call.ret.grid[2][2].class = "thumbnail"
    /\ call.ret.grid[2][2].index = 9
    /\ call.ret.grid[2][3].class = "emptyDays"
    /\ call.ret.references[9].href = 9

\* C29: alphabet_navigation builds exactly ceil(n/26) rows for n distinct
\* bucket letters, and no row of the fragment is empty, also when n is a
\* multiple of 26.
C29_RowCount ==
    (IsNavigation /\ ~call.ret.is_none) =>
        LET n == Cardinality(Range(call.index_list))
        IN  /\ Len(call.ret.rows) = (n + num_of_cols - 1) \div num_of_cols
            /\ \A r \in 1..Len(call.ret.rows) : call.ret.rows[r] # <<>>

====
